---- MODULE Spec2Model ----
(***************************************************************************)
(* Enterprise service bus controller of services/src/esb.rs: construction  *)
(* (Controller::init), the send facade (Senders::send_to) and the run loop *)
(* (Controller::try_run_loop / Controller::run), over an abstract routed   *)
(* transport (one inbound queue and one outbound log per bus socket).      *)
(* And the RPC client of services/src/client.rs and                        *)
(* services/src/rpc/client.rs (RpcClient::request) over request sockets.   *)
(***************************************************************************)
EXTENDS Integers, Sequences, FiniteSets, TLC

\* ------------------------------------------------------------------ bounds
\* Events of the transport in one behaviour: frames it delivers to the
\* controller's sockets, plus faults (a poll error, a receive error, a bus
\* reported ready that has no frame).
MaxEvents == 2
\* Calls of RpcClient::request in one behaviour.
MaxCalls == 3

\* ------------------------------------------------------------ value spaces
AllBus == {"X", "Y"}
Identities == {"A", "B"}
\* Identities of remote peers that write frames to a bus.
Peers == {"P"}
\* Destinations no peer of the transport answers to.
Unreachable == {"U"}
FrameDests == Identities \cup Unreachable

\* Carrier of a bus: a locator the controller opens, or an adopted socket
\* whose options are those its creator left (mandatory routing on or off).
Locator == [kind |-> "Locator", mandatory |-> FALSE]
Socket(mandatory) == [kind |-> "Socket", mandatory |-> mandatory]

\* The arguments of Controller::init that are explored: identity, router and
\* bus configuration.
Setups ==
    { [identity |-> "A", router |-> "A", service_bus |-> [b \in {"X"} |-> Locator]],
      [identity |-> "A", router |-> "B", service_bus |-> [b \in {"X"} |-> Socket(FALSE)]],
      [identity |-> "B", router |-> "A",
       service_bus |-> [b \in {"X", "Y"} |-> IF b = "X" THEN Locator ELSE Socket(TRUE)]] }

\* ------------------------------------------------------------------- codec
\* Request encoding: a type tag followed by the payload bytes.  Type 3 is a
\* request whose serialisation fails.
KnownTypes == {1, 2}
Ping == [type |-> 1, payload |-> <<>>]
Req == [type |-> 2, payload |-> <<7>>]
Unencodable == [type |-> 3, payload |-> <<>>]
NoRequest == [type |-> 0, payload |-> <<>>]

Bodies == { <<2, 7>>, <<9>> }

Unmarshall(msg) ==
    IF msg # <<>> /\ Head(msg) \in KnownTypes
    THEN [ok |-> TRUE, request |-> [type |-> Head(msg), payload |-> Tail(msg)]]
    ELSE [ok |-> FALSE, request |-> NoRequest]

Encode(request) ==
    IF request.type \in KnownTypes
    THEN [ok |-> TRUE, data |-> <<request.type>> \o request.payload]
    ELSE [ok |-> FALSE, data |-> <<>>]

\* ------------------------------------------------------------------ errors
Ok == [kind |-> "Ok", arg |-> ""]
\* The variants of enum Error (lines 41-57).
ErrorKinds ==
    { "UnexpectedServerResponse", "Presentation", "Transport", "UnknownBusId",
      "ServiceError" }
Error(kind, arg) == [kind |-> kind, arg |-> arg]

\* Variant: every presentation error is reported as a transport error.
FromPresentation_AsTransport(e) == Error("Transport", e.arg)

\* impl From<presentation::Error> for Error
FromPresentation(e) ==
    IF e.kind = "Transport" THEN Error("Transport", e.arg)
    ELSE Error("Presentation", e.arg)

\* impl From<zmq::Error> for Error, and #[from] transport::Error
FromTransport(e) == Error("Transport", e)

VARIABLES
    pc,             \* position of the controller's thread
    identity,       \* Controller.identity
    router,         \* Senders.router
    arg_identity,   \* init(identity, ..): the argument
    service_bus,    \* init(.., service_bus, ..): the bus configuration
    arg_router,     \* init(.., router, ..): the argument
    sessions,       \* Senders.sessions: bus id -> socket
    order,          \* iteration order of the sessions map
    inq,            \* per bus: frames delivered and not yet received
    outq,           \* per bus: frames written by send_routed_message
    service_buses,  \* run(): ready buses still to service in this cycle
    bus_id,         \* run(): bus being serviced
    routed_frame,   \* run(): the frame held
    err,            \* the error run() returned, pending in handle_err
    result,         \* what init / try_run_loop returned
    log,            \* calls made on the handler, send_to and the transport,
                    \* in order
    received,       \* frames recv_routed_message returned, with their bus
                    \* and the poll cycle they were received in
    delivered,      \* number of frames delivered so far
    faults,         \* number of transport faults so far
    rpc_pc,         \* position of the RPC client's thread
    endpoints,      \* RpcClient::init(endpoints, ..): the tags to open
    rpc_sessions,   \* RpcClient.sessions: endpoint tag -> client socket
    rpc_call,       \* request(): the call in progress
    rpc_log,        \* calls, socket operations and returns, in order
    released,       \* parts of the controller dropped so far, in order
    client_runs,    \* one request made on both RPC clients: the scenario
                    \* and what each client did
    addr_call       \* the last call made on the address types: what was
                    \* called, with what, and what it returned

\* The arguments of Controller::init.
init_args == << arg_identity, service_bus, arg_router >>

\* The state of the RPC client.
rpc_vars == << rpc_pc, endpoints, rpc_sessions, rpc_call, rpc_log,
              client_runs >>

\* The state of the ESB controller.
esb_vars == << pc, identity, router, init_args, sessions, order, inq, outq,
               service_buses, bus_id, routed_frame, err, result, log,
               received, delivered, faults, released >>

\* The state of the address codec: pure functions, so only the call made.
addr_vars == << addr_call >>

vars == << esb_vars, rpc_vars, addr_vars >>

NoFrame == [src |-> "", dst |-> "", msg |-> <<>>, n |-> 0]

\* Endpoint tags: those the client is given at init, and one it is not.
OpenedTags == {"E1", "E2"}
Tags == OpenedTags \cup {"E3"}
\* A client socket: its request/reply state, the request the server has
\* not answered yet, and the replies that have arrived.
FreshSocket == [state |-> "ready", asked |-> 0, inbox |-> <<>>]
NoRpcSessions == [t \in {} |-> FreshSocket]
NoCall == [id |-> 0, endpoint |-> ""]
NoSessions == [b \in {} |-> [mandatory |-> FALSE, identity |-> ""]]

Owned == DOMAIN sessions

\* No request has been made on the pair of RPC clients.
NoRuns == [made |-> FALSE]

\* No call of the address functions is in progress.
NoAddrCall == [op |-> "none"]

\* All orders in which a set of buses can be listed.
Orders(S) ==
    { o \in UNION { [1..n -> S] : n \in {Cardinality(S)} } :
        \A i, j \in DOMAIN o : i # j => o[i] # o[j] }

Init ==
    /\ pc = "start"
    /\ \E s \in Setups :
          /\ arg_identity = s.identity
          /\ arg_router = s.router
          /\ service_bus = s.service_bus
    /\ identity = ""
    /\ router = ""
    /\ sessions = NoSessions
    /\ order = <<>>
    /\ inq = [b \in AllBus |-> <<>>]
    /\ outq = [b \in AllBus |-> <<>>]
    /\ service_buses = <<>>
    /\ bus_id = ""
    /\ routed_frame = NoFrame
    /\ err = Ok
    /\ result = Ok
    /\ log = <<>>
    /\ received = <<>>
    /\ delivered = 0
    /\ faults = 0
    /\ client_runs = NoRuns
    /\ rpc_pc = "start"
    /\ endpoints = OpenedTags
    /\ rpc_sessions = NoRpcSessions
    /\ rpc_call = NoCall
    /\ rpc_log = <<>>
    /\ released = <<>>
    /\ addr_call = NoAddrCall


\* ------------------------------------------------------------- transport
\* Variant: the frame is written to every bus socket.
SendRouted_AllBuses(oq, bus, route, dest, data, cause) ==
    [ok |-> TRUE, e |-> "",
     outq |-> [b \in AllBus |->
                 IF b \in DOMAIN sessions
                 THEN Append(oq[b],
                        [src |-> route, dst |-> dest, msg |-> data,
                         fate |-> "routed", cause |-> cause,
                         at |-> Len(received),
                         cycle |-> Cardinality({ i \in DOMAIN log : log[i].ev = "poll" })])
                 ELSE oq[b]]]

\* Router socket send: the frame [route, dest, data] is written to the bus,
\* stamped with the number of frames received and of polls made so far.
\* With mandatory routing an unreachable destination fails the call; without
\* it the socket accepts the frame and drops it.
SendRouted(oq, bus, route, dest, data, cause) ==
    IF dest \in Unreachable /\ sessions[bus].mandatory
    THEN [ok |-> FALSE, e |-> "EHOSTUNREACH", outq |-> oq]
    ELSE [ok |-> TRUE, e |-> "",
          outq |-> [oq EXCEPT ![bus] = Append(@,
                      [src |-> route, dst |-> dest, msg |-> data,
                       fate |-> IF dest \in Unreachable THEN "dropped" ELSE "routed",
                       cause |-> cause, at |-> Len(received),
                       cycle |-> Cardinality({ i \in DOMAIN log : log[i].ev = "poll" })])]]

\* The transport delivers a frame to a bus socket of the controller.
Deliver ==
    /\ pc \in {"poll", "recv"}
    /\ delivered + faults < MaxEvents
    /\ \E b \in Owned, s \in Peers, d \in FrameDests, m \in Bodies :
          inq' = [inq EXCEPT ![b] = Append(@,
                    [src |-> s, dst |-> d, msg |-> m, n |-> delivered + 1])]
    /\ delivered' = delivered + 1
    /\ UNCHANGED << pc, identity, router, init_args, rpc_vars, addr_vars, released, sessions, order, outq,
                    service_buses, bus_id, routed_frame, err, result, log,
                    received, faults >>

\* ------------------------------------------------------- Controller::init
\* Variant: no socket is given the controller's identity.
OpenSession_Anonymous(carrier) ==
    [mandatory |-> carrier.kind = "Locator" \/ carrier.mandatory,
     identity |-> "ext"]

\* Lines 164-185: the session built for one carrier.
OpenSession(carrier) ==
    IF carrier.kind = "Locator"
    THEN [mandatory |-> TRUE, identity |-> arg_identity]
    ELSE [mandatory |-> carrier.mandatory, identity |-> "ext"]

ControllerInit ==
    /\ pc = "start"
    /\ \/ /\ sessions' = [b \in DOMAIN service_bus |-> OpenSession(service_bus[b])]
          /\ order' \in Orders(DOMAIN service_bus)
          /\ identity' = arg_identity
          /\ router' = arg_router
          /\ pc' = "constructed"
          /\ UNCHANGED result
       \/ /\ \E b \in DOMAIN service_bus : service_bus[b].kind = "Locator"
          /\ pc' = "init_failed"
          /\ result' = FromTransport("open")
          /\ UNCHANGED << identity, router, sessions, order >>
    /\ UNCHANGED << init_args, rpc_vars, addr_vars, released, inq, outq, service_buses,
                    bus_id, routed_frame, err, log, received, delivered, faults >>

\* ------------------------------------------------------- Senders::send_to
\* Variant of send_to: a bus that is not in the map is passed over in
\* silence.
SendTo_SkipUnknown(st, bus, dest, request, cause) ==
    LET data == Encode(request)
        id == Len(st.log) + 1
        call(res) == [ev |-> "send_to", by |-> cause.by, n |-> cause.n,
                      bus |-> bus, dest |-> dest, request |-> request,
                      res |-> res]
    IN  IF ~data.ok
        THEN LET res == FromPresentation(Error("Presentation", "encode"))
             IN  [res |-> res, outq |-> st.outq, log |-> Append(st.log, call(res))]
        ELSE IF bus \notin DOMAIN sessions
        THEN [res |-> Ok, outq |-> st.outq, log |-> Append(st.log, call(Ok))]
        ELSE LET r == SendRouted(st.outq, bus, router, dest, data.data,
                                 [by |-> cause.by, n |-> cause.n, call |-> id])
                 res == IF r.ok THEN Ok ELSE FromTransport(r.e)
             IN  [res |-> res, outq |-> r.outq, log |-> Append(st.log, call(res))]

\* Variant of send_to: the bus is looked up before the request is encoded.
SendTo_LookupFirst(st, bus, dest, request, cause) ==
    LET data == Encode(request)
        id == Len(st.log) + 1
        call(res) == [ev |-> "send_to", by |-> cause.by, n |-> cause.n,
                      bus |-> bus, dest |-> dest, request |-> request,
                      res |-> res]
    IN  IF bus \notin DOMAIN sessions
        THEN LET res == Error("UnknownBusId", bus)
             IN  [res |-> res, outq |-> st.outq, log |-> Append(st.log, call(res))]
        ELSE IF ~data.ok
        THEN LET res == FromPresentation(Error("Presentation", "encode"))
             IN  [res |-> res, outq |-> st.outq, log |-> Append(st.log, call(res))]
        ELSE LET r == SendRouted(st.outq, bus, router, dest, data.data,
                                 [by |-> cause.by, n |-> cause.n, call |-> id])
                 res == IF r.ok THEN Ok ELSE FromTransport(r.e)
             IN  [res |-> res, outq |-> r.outq, log |-> Append(st.log, call(res))]

\* st = [outq, log]; the result carries the new outq and log and the value
\* send_to returns.
SendTo(st, bus, dest, request, cause) ==
    LET data == Encode(request)
        id == Len(st.log) + 1
        call(res) == [ev |-> "send_to", by |-> cause.by, n |-> cause.n,
                      bus |-> bus, dest |-> dest, request |-> request,
                      res |-> res]
    IN  IF ~data.ok
        THEN LET res == FromPresentation(Error("Presentation", "encode"))
             IN  [res |-> res, outq |-> st.outq, log |-> Append(st.log, call(res))]
        ELSE IF bus \notin DOMAIN sessions
        THEN LET res == Error("UnknownBusId", bus)
             IN  [res |-> res, outq |-> st.outq, log |-> Append(st.log, call(res))]
        ELSE LET r == SendRouted(st.outq, bus, router, dest, data.data,
                                 [by |-> cause.by, n |-> cause.n, call |-> id])
                 res == IF r.ok THEN Ok ELSE FromTransport(r.e)
             IN  [res |-> res, outq |-> r.outq, log |-> Append(st.log, call(res))]

\* Controller::send_to called by the owner before the loop is entered (one
\* call is explored; try_run_loop takes the controller by value, so none can
\* follow it).
ApiSend ==
    /\ pc = "constructed"
    /\ log = <<>>
    /\ \E b \in {"Y"}, d \in Peers :
          LET r == SendTo([outq |-> outq, log |-> log], b, d, Ping,
                          [by |-> "api", n |-> 0])
          IN  /\ outq' = r.outq
              /\ log' = r.log
    /\ UNCHANGED << pc, identity, router, init_args, rpc_vars, addr_vars, released, sessions, order, inq,
                    service_buses, bus_id, routed_frame, err, result,
                    received, delivered, faults >>

\* ------------------------------------------------------------- the handler
\* What a handler may do in one handle call: send_to calls in sequence,
\* either returning the first error a send_to gives (propagate) or ignoring
\* it, and then returning Ok or an error of its own.
HandlerSends(source) ==
    { [bus |-> "X", dest |-> source, request |-> Ping],
      [bus |-> "Y", dest |-> source, request |-> Ping],
      [bus |-> "X", dest |-> "U", request |-> Ping],
      [bus |-> "Y", dest |-> source, request |-> Unencodable] }

HandlerScripts(source) ==
    {<<>>} \cup { <<c>> : c \in HandlerSends(source) }

RECURSIVE RunScript(_, _, _, _)
RunScript(st, script, propagate, cause) ==
    IF script = <<>>
    THEN [res |-> Ok, outq |-> st.outq, log |-> st.log]
    ELSE LET c == Head(script)
             r == SendTo(st, c.bus, c.dest, c.request, cause)
         IN  IF r.res # Ok /\ propagate
             THEN r
             ELSE RunScript([outq |-> r.outq, log |-> r.log], Tail(script),
                            propagate, cause)

\* Variant: no frame is taken to be for this controller.
IsLocal_Never(dest) == FALSE

\* Line 286: the frame is for this controller.
IsLocal(dest) == dest = identity

\* Variant: what the handler sends is not written while handle runs.
Handle_Unwritten(st, bus, frame, request, script, propagate, own) ==
    LET id == Len(st.log) + 1
        call == [ev |-> "handle", bus |-> bus, source |-> frame.src,
                 request |-> request, n |-> frame.n, ret |-> Ok]
        r == RunScript([outq |-> st.outq, log |-> Append(st.log, call)],
                       script, propagate, [by |-> "handler", n |-> frame.n])
        ret == IF r.res = Ok /\ own THEN Error("ServiceError", "handler")
               ELSE r.res
    IN  [res |-> ret, outq |-> st.outq, log |-> [r.log EXCEPT ![id].ret = ret]]

\* Lines 290-295: handler.handle(&mut senders, bus_id, source, request)?
Handle(st, bus, frame, request, script, propagate, own) ==
    LET id == Len(st.log) + 1
        call == [ev |-> "handle", bus |-> bus, source |-> frame.src,
                 request |-> request, n |-> frame.n, ret |-> Ok]
        r == RunScript([outq |-> st.outq, log |-> Append(st.log, call)],
                       script, propagate, [by |-> "handler", n |-> frame.n])
        ret == IF r.res = Ok /\ own THEN Error("ServiceError", "handler")
               ELSE r.res
    IN  [res |-> ret, outq |-> r.outq, log |-> [r.log EXCEPT ![id].ret = ret]]

\* Variant: the frame is forwarded on the first bus of the map.
Forward_FirstBus(st, bus, frame, request) ==
    SendTo(st, order[1], frame.dst, request, [by |-> "forward", n |-> frame.n])

\* Variant: a forward that failed is tried once more.
Forward_Retry(st, bus, frame, request) ==
    LET r == SendTo(st, bus, frame.dst, request,
                    [by |-> "forward", n |-> frame.n])
    IN  IF r.res = Ok THEN r
        ELSE SendTo([outq |-> r.outq, log |-> r.log], bus, frame.dst, request,
                    [by |-> "forward", n |-> frame.n])

\* Line 300: self.senders.send_to(bus_id, dest, request)?
Forward(st, bus, frame, request) ==
    SendTo(st, bus, frame.dst, request, [by |-> "forward", n |-> frame.n])

\* ---------------------------------------------------------- Controller::run
\* Lines 243-271: poll all sessions; the ready buses in map order.
ReadyList(ready) == SelectSeq(order, LAMBDA b : b \in ready)

Queued == { b \in Owned : inq[b] # <<>> }

\* One call of zmq::poll in the log: the buses it reported, the buses that
\* had a frame at that moment, and what it returned.
PollCall(ready, res) ==
    [ev |-> "poll", ready |-> ready, queued |-> Queued, res |-> res]

PollCalls == { i \in DOMAIN log : log[i].ev = "poll" }

Poll ==
    /\ pc = "poll"
    /\ Queued # {}
    /\ service_buses' = ReadyList(Queued)
    /\ log' = Append(log, PollCall(ReadyList(Queued), Ok))
    /\ pc' = "recv"
    /\ UNCHANGED << identity, router, init_args, rpc_vars, addr_vars, released, sessions, order, inq, outq,
                    bus_id, routed_frame, err, result, received, delivered,
                    faults >>

\* The poll reports a bus ready that has no frame to give.
PollSpurious ==
    /\ pc = "poll"
    /\ delivered + faults < MaxEvents
    /\ \E extra \in (SUBSET (Owned \ Queued)) \ {{}} :
          /\ service_buses' = ReadyList(Queued \cup extra)
          /\ log' = Append(log, PollCall(ReadyList(Queued \cup extra), Ok))
    /\ faults' = faults + 1
    /\ pc' = "recv"
    /\ UNCHANGED << identity, router, init_args, rpc_vars, addr_vars, released, sessions, order, inq, outq,
                    bus_id, routed_frame, err, result, received, delivered >>

\* Variant: an error of the loop body is dropped and the cycle goes on.
RunStep_Swallow(res) ==
    /\ service_buses' = Tail(service_buses)
    /\ pc' = IF Tail(service_buses) = <<>> THEN "poll" ELSE "recv"
    /\ err' = err

\* Variant: the poll is issued again after every bus serviced.
RunStep_Repoll(res) ==
    /\ service_buses' = <<>>
    /\ pc' = IF res = Ok THEN "poll" ELSE "handle_err"
    /\ err' = IF res = Ok THEN err ELSE res

\* Where the loop goes when run() ends with `res` after servicing a bus, or
\* goes on to the next ready bus.
RunStep(res) ==
    IF res = Ok
    THEN /\ service_buses' = Tail(service_buses)
         /\ pc' = IF Tail(service_buses) = <<>> THEN "poll" ELSE "recv"
         /\ err' = err
    ELSE /\ service_buses' = <<>>
         /\ pc' = "handle_err"
         /\ err' = res

\* Line 255: zmq::poll(..)? fails.
PollError ==
    /\ pc = "poll"
    /\ delivered + faults < MaxEvents
    /\ faults' = faults + 1
    /\ pc' = "handle_err"
    /\ err' = FromTransport("poll")
    /\ log' = Append(log, PollCall(<<>>, FromTransport("poll")))
    /\ UNCHANGED << identity, router, init_args, rpc_vars, addr_vars, released, sessions, order, inq, outq,
                    service_buses, bus_id, routed_frame, result, received,
                    delivered >>

\* Variant: the newest frame of the socket is taken.
RecvRouted_Last(q) == q[Len(q)]

\* Line 280: the frame recv_routed_message takes from the socket.
RecvRouted(q) == Head(q)

Recv ==
    /\ pc = "recv"
    /\ LET b == Head(service_buses)
       IN  /\ inq[b] # <<>>
           /\ routed_frame' = RecvRouted(inq[b])
           /\ inq' = [inq EXCEPT ![b] = Tail(@)]
           /\ bus_id' = b
           /\ received' = Append(received,
                 [bus |-> b, frame |-> RecvRouted(inq[b]),
                  cycle |-> Cardinality(PollCalls)])
    /\ pc' = "dispatch"
    /\ UNCHANGED << identity, router, init_args, rpc_vars, addr_vars, released, sessions, order, outq,
                    service_buses, err, result, log, delivered, faults >>

\* Variant: after a failed receive the bus socket is opened anew.
RecvError_Reopen ==
    /\ pc = "recv"
    /\ delivered + faults < MaxEvents
    /\ faults' = faults + 1
    /\ bus_id' = Head(service_buses)
    /\ RunStep(FromTransport("recv"))
    /\ log' = Append(log, [ev |-> "recv_err", bus |-> Head(service_buses),
                           cycle |-> Cardinality(PollCalls)])
    /\ sessions' = [sessions EXCEPT ![Head(service_buses)] = OpenSession(Locator)]
    /\ UNCHANGED << identity, router, init_args, rpc_vars, addr_vars, released, order, inq, outq,
                    routed_frame, result, received, delivered >>

\* Line 280: recv_routed_message()? fails.
RecvError ==
    /\ pc = "recv"
    /\ delivered + faults < MaxEvents
    /\ faults' = faults + 1
    /\ bus_id' = Head(service_buses)
    /\ RunStep(FromTransport("recv"))
    /\ log' = Append(log, [ev |-> "recv_err", bus |-> Head(service_buses),
                           cycle |-> Cardinality(PollCalls)])
    /\ UNCHANGED << identity, router, init_args, rpc_vars, addr_vars, released, sessions, order, inq, outq,
                    routed_frame, result, received, delivered >>

\* Variant: the frame is still held after its servicing.
Release_Keep(frame) == frame

\* Lines 273-302: routed_frame is a local of the loop body; it is dropped
\* when the body ends or `?` returns.
Release(frame) == NoFrame

\* Variant: the destination is examined first, and a frame for another
\* identity is passed to the forward whether or not its body decodes.
Dispatch_DestFirst ==
    /\ pc = "dispatch"
    /\ LET u == Unmarshall(routed_frame.msg)
           st == [outq |-> outq, log |-> log]
       IN  IF ~IsLocal(routed_frame.dst)
           THEN LET r == Forward(st, bus_id, routed_frame, u.request)
                IN  /\ RunStep(r.res)
                    /\ log' = r.log
                    /\ outq' = r.outq
           ELSE IF ~u.ok
           THEN /\ RunStep(FromPresentation(Error("Presentation", "unmarshall")))
                /\ log' = Append(log, [ev |-> "unmarshall_err", bus |-> bus_id,
                                       n |-> routed_frame.n])
                /\ outq' = outq
           ELSE \E script \in HandlerScripts(routed_frame.src),
                   propagate \in BOOLEAN, own \in BOOLEAN :
                   /\ own => script = <<>>
                   /\ LET r == Handle(st, bus_id, routed_frame, u.request,
                                      script, propagate, own)
                      IN  /\ RunStep(r.res)
                          /\ log' = r.log
                          /\ outq' = r.outq
    /\ routed_frame' = Release(routed_frame)
    /\ UNCHANGED << identity, router, init_args, rpc_vars, addr_vars, released, sessions, order, inq,
                    bus_id, result, received, delivered, faults >>

\* Lines 281-301: unmarshall, then handle or forward.
Dispatch ==
    /\ pc = "dispatch"
    /\ LET u == Unmarshall(routed_frame.msg)
           st == [outq |-> outq, log |-> log]
       IN  IF ~u.ok
           THEN /\ RunStep(FromPresentation(Error("Presentation", "unmarshall")))
                /\ log' = Append(log, [ev |-> "unmarshall_err", bus |-> bus_id,
                                       n |-> routed_frame.n])
                /\ outq' = outq
           ELSE IF IsLocal(routed_frame.dst)
           THEN \E script \in HandlerScripts(routed_frame.src),
                   propagate \in BOOLEAN, own \in BOOLEAN :
                   /\ own => script = <<>>
                   /\ LET r == Handle(st, bus_id, routed_frame, u.request,
                                      script, propagate, own)
                      IN  /\ RunStep(r.res)
                          /\ log' = r.log
                          /\ outq' = r.outq
           ELSE LET r == Forward(st, bus_id, routed_frame, u.request)
                IN  /\ RunStep(r.res)
                    /\ log' = r.log
                    /\ outq' = r.outq
    /\ routed_frame' = Release(routed_frame)
    /\ UNCHANGED << identity, router, init_args, rpc_vars, addr_vars, released, sessions, order, inq,
                    bus_id, result, received, delivered, faults >>

\* ------------------------------------------------ Controller::try_run_loop
Start ==
    /\ pc = "constructed"
    /\ pc' = "poll"
    /\ UNCHANGED << identity, router, init_args, rpc_vars, addr_vars, released, sessions, order, inq, outq,
                    service_buses, bus_id, routed_frame, err, result, log,
                    received, delivered, faults >>

\* What handle_err may return: Ok, or an error that ends the loop.
HandleErrReturns == { Ok, Error("ServiceError", "fatal") }

\* Variant: the loop ends after any handle_err call.
LoopNext_Stop(ret) == "terminated"

\* Variant: after an error the thread does not get back to the poll.
LoopNext_Hang(ret) == IF ret = Ok THEN "halted" ELSE "terminated"

\* Lines 224-230: `self.handler.handle_err(err)?` inside `loop`.
LoopNext(ret) == IF ret = Ok THEN "poll" ELSE "terminated"

HandleErr ==
    /\ pc = "handle_err"
    /\ \E ret \in HandleErrReturns :
          /\ log' = Append(log, [ev |-> "handle_err", error |-> err, ret |-> ret])
          /\ pc' = LoopNext(ret)
          /\ result' = IF LoopNext(ret) = "terminated" THEN ret ELSE result
    /\ err' = Ok
    /\ UNCHANGED << identity, router, init_args, rpc_vars, addr_vars, released, sessions, order, inq, outq,
                    service_buses, bus_id, routed_frame, received, delivered,
                    faults >>

\* struct Controller: its fields, in the order of their declaration.
ControllerFields == << "identity", "senders", "unmarshaller", "handler" >>

\* try_run_loop takes the controller by value: when the loop ends, the
\* controller goes out of scope and is dropped.  Controller has no Drop of its
\* own, so its fields are dropped one after another in the order of their
\* declaration; dropping senders drops the bus sockets it holds.
Teardown ==
    /\ pc = "terminated"
    /\ released = <<>>
    /\ released' = [i \in DOMAIN ControllerFields |->
                      [part |-> ControllerFields[i],
                       sockets |-> IF ControllerFields[i] = "senders"
                                   THEN Owned ELSE {}]]
    /\ UNCHANGED << pc, identity, router, init_args, rpc_vars, addr_vars,
                    sessions, order, inq, outq, service_buses, bus_id,
                    routed_frame, err, result, log, received, delivered,
                    faults >>

Next ==
    \/ ControllerInit
    \/ ApiSend
    \/ Start
    \/ Deliver
    \/ Poll
    \/ PollSpurious
    \/ PollError
    \/ Recv
    \/ RecvError
    \/ Dispatch
    \/ HandleErr
    \/ Teardown

Spec == Init /\ [][Next]_vars

\* The controller thread's own steps; the transport's events are not among
\* them.  The loop is sequential code that always takes its next step.
ControllerStep == Start \/ Poll \/ Recv \/ Dispatch \/ HandleErr

\* The loop from its entry, under a transport whose poll reports exactly the
\* sockets that have a frame to give: every transport event but the empty
\* readiness.  Calls of Controller::send_to precede the loop (try_run_loop
\* takes the controller by value) and are left to Spec.
FairNext ==
    \/ ControllerInit
    \/ Start
    \/ Deliver
    \/ Poll
    \/ PollError
    \/ Recv
    \/ RecvError
    \/ Dispatch
    \/ HandleErr
    \/ Teardown

FairSpec == Init /\ [][FairNext]_vars /\ WF_vars(ControllerStep)

\* The loop under every transport event, empty readiness included; the
\* controller's thread always takes its next step, the transport owes none.
LiveSpec == Init /\ [][Next]_vars /\ WF_vars(ControllerStep)

\* ----------------------------------------------------------- RpcClient
\* Calls of request made so far.
RpcCalls == { i \in DOMAIN rpc_log : rpc_log[i].ev = "call" }

\* RpcClient::init / RpcClient::with: one client socket per endpoint; the
\* first socket that cannot be opened fails the construction.
RpcClientInit ==
    /\ rpc_pc = "start"
    /\ \/ /\ rpc_sessions' = [t \in endpoints |-> FreshSocket]
          /\ rpc_pc' = "idle"
       \/ /\ rpc_pc' = "init_failed"
          /\ UNCHANGED rpc_sessions
    /\ UNCHANGED << esb_vars, addr_vars, client_runs, endpoints, rpc_call, rpc_log >>

\* What `?` returns from request: the error of the failing call converted
\* into the error type of request, recorded by the type it came from (a
\* presentation::Error of encode or unmarshall, a transport::Error of the
\* socket).
RpcFromPresentation(e) == Error("Presentation", e)
RpcFromTransport(e) == Error("Transport", e)

\* Client socket send: a request socket accepts a message only when it is
\* not waiting for a reply; an accepted send can still fail in the
\* transport.
SendRaw(sock) ==
    IF sock.state = "awaiting"
    THEN { [ok |-> FALSE, e |-> "EFSM"] }
    ELSE { [ok |-> TRUE, e |-> ""], [ok |-> FALSE, e |-> "EHOSTUNREACH"] }

\* Variant: a tag that is not in the map is reported as a transport error.
Prepare_UnknownAsTransport(tag, request) ==
    LET data == Encode(request)
    IN  IF ~data.ok
        THEN [ok |-> FALSE, res |-> RpcFromPresentation("encode"), data |-> <<>>]
        ELSE IF tag \notin DOMAIN rpc_sessions
        THEN [ok |-> FALSE, res |-> RpcFromTransport(tag), data |-> <<>>]
        ELSE [ok |-> TRUE, res |-> Ok, data |-> data.data]

\* Lines 70-74: encode the request, then look the endpoint up.
Prepare(tag, request) ==
    LET data == Encode(request)
    IN  IF ~data.ok
        THEN [ok |-> FALSE, res |-> RpcFromPresentation("encode"), data |-> <<>>]
        ELSE IF tag \notin DOMAIN rpc_sessions
        THEN [ok |-> FALSE, res |-> Error("UnknownEndpoint", tag), data |-> <<>>]
        ELSE [ok |-> TRUE, res |-> Ok, data |-> data.data]

RpcReturn(id, res) == [ev |-> "return", id |-> id, res |-> res]

\* Lines 65-75: request() up to the blocking receive.
Request ==
    /\ rpc_pc = "idle"
    /\ Cardinality(RpcCalls) < MaxCalls
    /\ \E tag \in Tags, request \in {Ping, Unencodable} :
          LET id == Cardinality(RpcCalls) + 1
              call == [ev |-> "call", id |-> id, endpoint |-> tag,
                       request |-> request]
              p == Prepare(tag, request)
          IN  IF ~p.ok
              THEN /\ rpc_log' = rpc_log \o << call, RpcReturn(id, p.res) >>
                   /\ UNCHANGED << rpc_pc, rpc_sessions, rpc_call >>
              ELSE \E r \in SendRaw(rpc_sessions[tag]) :
                      LET send == [ev |-> "send", id |-> id, endpoint |-> tag,
                                   ok |-> r.ok, data |-> p.data]
                      IN  IF r.ok
                          THEN /\ rpc_sessions' =
                                     [rpc_sessions EXCEPT ![tag].state = "awaiting",
                                                          ![tag].asked = id]
                               /\ rpc_call' = [id |-> id, endpoint |-> tag]
                               /\ rpc_pc' = "recv"
                               /\ rpc_log' = rpc_log \o << call, send >>
                          ELSE /\ rpc_log' = rpc_log \o
                                     << call, send, RpcReturn(id, RpcFromTransport(r.e)) >>
                               /\ UNCHANGED << rpc_pc, rpc_sessions, rpc_call >>
    /\ UNCHANGED << esb_vars, addr_vars, client_runs, endpoints >>

\* Reply bodies a server may send: one that decodes and one that does not.
ReplyBodies == { <<1>>, <<9>> }

\* The server at the other end answers the request it was sent.
ServerReply ==
    /\ \E tag \in DOMAIN rpc_sessions, body \in ReplyBodies :
          /\ rpc_sessions[tag].asked # 0
          /\ rpc_sessions' =
                [rpc_sessions EXCEPT
                    ![tag].inbox = Append(@, [re |-> rpc_sessions[tag].asked,
                                              msg |-> body]),
                    ![tag].asked = 0]
    /\ UNCHANGED << esb_vars, addr_vars, client_runs, rpc_pc, endpoints, rpc_call, rpc_log >>

\* Variant: the reply is awaited on the first socket of the map.
RecvSession_First(tag) == "E1"

\* Line 76: the receive is made on the session the request was sent on.
RecvSession(tag) == tag

\* Lines 76-78: recv_raw_message()? returns a reply; unmarshall it.
RecvReply ==
    /\ rpc_pc = "recv"
    /\ LET tag == RecvSession(rpc_call.endpoint)
           id == rpc_call.id
       IN  /\ rpc_sessions[tag].inbox # <<>>
           /\ LET raw == Head(rpc_sessions[tag].inbox)
                  u == Unmarshall(raw.msg)
                  recv == [ev |-> "recv", id |-> id, endpoint |-> tag,
                           ok |-> TRUE, re |-> raw.re]
                  res == IF u.ok
                         THEN [kind |-> "Reply", arg |-> u.request, re |-> raw.re]
                         ELSE RpcFromPresentation("unmarshall")
              IN  /\ rpc_log' = rpc_log \o << recv, RpcReturn(id, res) >>
                  /\ rpc_sessions' =
                        [rpc_sessions EXCEPT ![tag].inbox = Tail(@),
                                             ![tag].state = "ready"]
    /\ rpc_pc' = "idle"
    /\ rpc_call' = NoCall
    /\ UNCHANGED << esb_vars, addr_vars, client_runs, endpoints >>

\* Line 76: recv_raw_message()? fails; the socket still waits for its
\* reply.
RecvFail ==
    /\ rpc_pc = "recv"
    /\ LET tag == RecvSession(rpc_call.endpoint)
           id == rpc_call.id
           recv == [ev |-> "recv", id |-> id, endpoint |-> tag,
                    ok |-> FALSE, re |-> 0]
       IN  rpc_log' = rpc_log \o
               << recv, RpcReturn(id, RpcFromTransport("EINTR")) >>
    /\ rpc_pc' = "idle"
    /\ rpc_call' = NoCall
    /\ UNCHANGED << esb_vars, addr_vars, client_runs, endpoints, rpc_sessions >>

RpcNext ==
    \/ RpcClientInit
    \/ Request
    \/ ServerReply
    \/ RecvReply
    \/ RecvFail

RpcSpec == Init /\ [][RpcNext]_vars

\* ---------------------------------------------------------------- history
\* Frames whose servicing is over: received, and no longer held by run().
Serviced ==
    { i \in DOMAIN received :
        ~(pc = "dispatch" /\ routed_frame.n = received[i].frame.n) }

HandleCalls(n) == { i \in DOMAIN log : log[i].ev = "handle" /\ log[i].n = n }

ForwardCalls(n) ==
    { i \in DOMAIN log :
        log[i].ev = "send_to" /\ log[i].by = "forward" /\ log[i].n = n }

HandleErrCalls == { i \in DOMAIN log : log[i].ev = "handle_err" }

\* Frames on the wire: <<bus, index>> of every frame written to a bus.
Emitted == UNION { {b} \X DOMAIN outq[b] : b \in AllBus }

EmittedBy(by, n) ==
    { e \in Emitted :
        outq[e[1]][e[2]].cause.by = by /\ outq[e[1]][e[2]].cause.n = n }

\* ------------------------------------------------------------------ claims

\* C1: a received frame whose destination is the controller's identity and
\* whose body decodes is handed to handler.handle exactly once, with the bus
\* it came from, its source and the decoded request; the controller does not
\* forward it, and every frame written while it is serviced was sent by the
\* handler.
C1_LocalDispatch ==
    \A i \in Serviced :
        LET r == received[i]
            f == r.frame
        IN  (f.dst = identity /\ f.msg = <<2, 7>>) =>
              /\ Cardinality(HandleCalls(f.n)) = 1
              /\ \A h \in HandleCalls(f.n) :
                    /\ log[h].bus = r.bus
                    /\ log[h].source = f.src
                    /\ log[h].request = Req
              /\ ForwardCalls(f.n) = {}
              /\ EmittedBy("forward", f.n) = {}

C1_Witness ==
    \E i \in Serviced :
        /\ received[i].frame.dst = identity
        /\ received[i].frame.msg = <<2, 7>>
        /\ HandleCalls(received[i].frame.n) # {}

ServiceEvents(b) ==
    SelectSeq(log, LAMBDA e :
        \/ e.ev \in {"handle", "unmarshall_err"} /\ e.bus = b
        \/ e.ev = "send_to" /\ e.by = "forward" /\ e.bus = b)

ReceivedOn(b) == SelectSeq(received, LAMBDA r : r.bus = b)

\* C3: on each bus the frames are received in the order the transport
\* delivered them (frame numbers grow with delivery), no frame still queued
\* on a bus precedes one already received from it, and the handler calls,
\* forwards and decode failures of one bus appear in that same order.
C3_BusFifo ==
    \A b \in AllBus :
        /\ \A i, j \in DOMAIN ReceivedOn(b) :
              i < j => ReceivedOn(b)[i].frame.n < ReceivedOn(b)[j].frame.n
        /\ \A i \in DOMAIN ReceivedOn(b), j \in DOMAIN inq[b] :
              ReceivedOn(b)[i].frame.n < inq[b][j].n
        /\ \A i, j \in DOMAIN ServiceEvents(b) :
              i < j => ServiceEvents(b)[i].n < ServiceEvents(b)[j].n

C3_Witness ==
    \E b \in AllBus :
        /\ Len(ReceivedOn(b)) >= 2
        /\ Len(ServiceEvents(b)) >= 2

\* C4: the loop has ended only if the last thing it did was a handle_err
\* call that returned an error, and it returned that very error; every
\* handle_err call that returned Ok was followed by the loop going on.
C4_OnlyHandleErrStops ==
    /\ pc = "terminated" =>
          /\ HandleErrCalls # {}
          /\ log[Len(log)].ev = "handle_err"
          /\ log[Len(log)].ret # Ok
          /\ result = log[Len(log)].ret
    /\ \A i \in HandleErrCalls :
          log[i].ret # Ok => (pc = "terminated" /\ i = Len(log))

C4_Witness ==
    /\ pc = "terminated"
    /\ \E i, j \in HandleErrCalls :
          /\ i < j
          /\ log[i].ret = Ok
          /\ log[i].error.kind \in {"Presentation", "Transport"}

AbsorbedError == \E i \in HandleErrCalls : log[i].ret = Ok

Fatal == \E i \in HandleErrCalls : log[i].ret # Ok

QueuedFrame(n) == \E b \in AllBus : \E i \in DOMAIN inq[b] : inq[b][i].n = n

ServicedFrame(n) == \E i \in Serviced : received[i].frame.n = n

DecodeFailures(n) ==
    { i \in DOMAIN log : log[i].ev = "unmarshall_err" /\ log[i].n = n }

ServicedNormally ==
    \A i \in Serviced :
        LET f == received[i].frame
            counts == << Cardinality(DecodeFailures(f.n)),
                         Cardinality(HandleCalls(f.n)),
                         Cardinality(ForwardCalls(f.n)) >>
        IN  counts = IF f.msg = <<9>> THEN <<1, 0, 0>>
                     ELSE IF f.dst = identity THEN <<0, 1, 0>>
                     ELSE <<0, 0, 1>>

\* C5: after an error that handle_err answered with Ok the controller is
\* back at the poll, and every frame that is queued on a bus from then on is
\* eventually received and serviced, unless a later handle_err call ends the
\* loop; what servicing a frame means is the same after an error as before:
\* a body that does not decode gives one decode failure, a frame for the
\* controller one handle call, any other frame one forward.
C5_ErrorRecovery ==
    /\ [][ (pc = "handle_err" /\ pc' # "handle_err"
              /\ log'[Len(log')].ret = Ok) => pc' = "poll" ]_vars
    /\ \A n \in 1..MaxEvents :
          (AbsorbedError /\ QueuedFrame(n)) ~> (ServicedFrame(n) \/ Fatal)
    /\ []ServicedNormally

C5_Witness ==
    \E i \in HandleErrCalls : \E j \in DOMAIN log :
        /\ log[i].ret = Ok
        /\ i < j
        /\ log[j].ev = "handle"
        /\ ServicedFrame(log[j].n)

\* C6 as stated: every frame written through send_to has the controller's
\* identity as its source.
C6_SendIdentity ==
    \A e \in Emitted : outq[e[1]][e[2]].src = identity

ReceivedFrame(n) ==
    (CHOOSE i \in DOMAIN received : received[i].frame.n = n)

\* C7 as stated: a forwarded frame carries the source identity of the frame
\* it forwards.
C7_ForwardKeepsSource ==
    \A e \in Emitted :
        LET o == outq[e[1]][e[2]]
        IN  o.cause.by = "forward" =>
              o.src = received[ReceivedFrame(o.cause.n)].frame.src

SendCalls == { i \in DOMAIN log : log[i].ev = "send_to" }

EmittedByCall(i) ==
    { e \in Emitted : outq[e[1]][e[2]].cause.call = i }

\* C8 as stated: a send_to on an owned bus, with a request that encodes, to
\* a destination the transport cannot reach writes no frame and returns
\* Send(identity, destination, transport error).
C8_SendFailure ==
    \A i \in SendCalls :
        (/\ log[i].bus \in Owned
         /\ log[i].request # Unencodable
         /\ log[i].dest \in Unreachable) =>
              /\ EmittedByCall(i) = {}
              /\ log[i].res.kind = "Send"

\* C9 as stated: once init has succeeded every owned bus socket has
\* mandatory routing enabled.
C9_MandatoryEverywhere ==
    pc \notin {"start", "init_failed"} =>
        \A b \in Owned : sessions[b].mandatory

\* C10 as stated: send_to with a bus that is not owned returns
\* UnknownBusId(bus) and writes no frame.
C10_UnknownBusAlways ==
    \A i \in SendCalls :
        log[i].bus \notin Owned =>
            /\ log[i].res = Error("UnknownBusId", log[i].bus)
            /\ EmittedByCall(i) = {}

\* The events that follow a handle call in the log and are not its own
\* send_to calls.
AfterHandle(h) ==
    { j \in DOMAIN log :
        /\ j > h
        /\ ~(log[j].ev = "send_to" /\ log[j].by = "handler" /\ log[j].n = log[h].n) }

\* C10 amended: send_to with a bus that is not owned writes no frame, and
\* returns UnknownBusId(bus) when the request encodes; when the handler
\* returns that error from handle, the next call on the handler is
\* handle_err with UnknownBusId(bus), and the loop has not ended unless that
\* or a later handle_err call returned an error.
C10_UnknownBus ==
    /\ \A i \in SendCalls :
          log[i].bus \notin Owned =>
              /\ EmittedByCall(i) = {}
              /\ log[i].request # Unencodable =>
                    log[i].res = Error("UnknownBusId", log[i].bus)
    /\ \A h \in DOMAIN log :
          (log[h].ev = "handle" /\ log[h].ret.kind = "UnknownBusId") =>
              /\ log[h].ret.arg \notin Owned
              /\ AfterHandle(h) = {} => (pc = "handle_err" /\ err = log[h].ret)
              /\ \A j \in AfterHandle(h) :
                    (\A k \in AfterHandle(h) : j <= k) =>
                        /\ log[j].ev = "handle_err"
                        /\ log[j].error = log[h].ret
                        /\ pc = "terminated" =>
                              \E k \in HandleErrCalls : k >= j /\ log[k].ret # Ok

C10_Witness ==
    \E h \in DOMAIN log :
        /\ log[h].ev = "handle"
        /\ log[h].ret = Error("UnknownBusId", "Y")
        /\ h + 2 \in HandleErrCalls
        /\ log[h + 2].ret = Ok
        /\ pc = "poll"

UnmarshallErrs == { i \in DOMAIN log : log[i].ev = "unmarshall_err" }

\* C11: a received frame whose body does not unmarshall is taken off its
\* bus, handler.handle is not called for it and nothing is forwarded or
\* written for it; the next call on the handler is handle_err with a
\* Presentation error, and when that call returns Ok the loop is back at the
\* poll, from where later frames are received.
C11_DecodeFailure ==
    \A u \in UnmarshallErrs :
        LET n == log[u].n
        IN  /\ ReceivedFrame(n) \in DOMAIN received
            /\ ~QueuedFrame(n)
            /\ HandleCalls(n) = {}
            /\ ForwardCalls(n) = {}
            /\ \A e \in Emitted : outq[e[1]][e[2]].cause.n # n
            /\ IF u = Len(log)
               THEN pc = "handle_err" /\ err.kind = "Presentation"
               ELSE /\ log[u + 1].ev = "handle_err"
                    /\ log[u + 1].error.kind = "Presentation"
                    /\ log[u + 1].ret = Ok =>
                          IF u + 1 = Len(log) THEN pc = "poll"
                          ELSE log[u + 2].ev = "poll"

C11_Witness ==
    \E u \in UnmarshallErrs : \E h \in DOMAIN log :
        /\ u + 1 < h
        /\ log[u + 1].ev = "handle_err"
        /\ log[u + 1].ret = Ok
        /\ log[h].ev = "handle"
        /\ log[h].n > log[u].n

\* Poll cycles: the c-th call of poll, the frames received between it and
\* the next call, and whether the cycle has ended.
Cycles == 1..Cardinality(PollCalls)

PollIndex(c) ==
    CHOOSE i \in PollCalls : Cardinality({ j \in PollCalls : j <= i }) = c

CycleBuses(c) ==
    LET rs == SelectSeq(received, LAMBDA r : r.cycle = c)
    IN  [i \in DOMAIN rs |-> rs[i].bus]

CycleOver(c) == c < Cardinality(PollCalls) \/ pc \notin {"recv", "dispatch"}

\* The cycle was ended by an error: handle_err was called, or is about to
\* be, before the next poll.
CycleErr(c) ==
    \/ c = Cardinality(PollCalls) /\ pc = "handle_err"
    \/ \E i \in HandleErrCalls :
          /\ i > PollIndex(c)
          /\ \A j \in PollCalls : j > PollIndex(c) => i < j

IsPrefix(a, b) == Len(a) <= Len(b) /\ \A i \in DOMAIN a : a[i] = b[i]

\* C12 as stated: in every poll cycle that has ended, the buses frames were
\* received from are exactly the buses the poll reported, one frame each, in
\* the order of the poll result.
C12_CycleDrainsAll ==
    \A c \in Cycles :
        CycleOver(c) => CycleBuses(c) = log[PollIndex(c)].ready

\* C12 amended: in every poll cycle frames are received from the buses the
\* poll reported one frame each, in the order of the poll result, each one
\* serviced before the next is received and before the next poll; a cycle
\* that has ended received from every reported bus unless it was ended by
\* an error, and then no bus after the failing one was received from.
C12_CycleDrainage ==
    \A c \in Cycles :
        /\ IsPrefix(CycleBuses(c), log[PollIndex(c)].ready)
        /\ \A i \in DOMAIN received :
              (received[i].cycle = c /\ (i < Len(received) \/ CycleOver(c)))
                  => i \in Serviced
        /\ (CycleOver(c) /\ ~CycleErr(c)) =>
              CycleBuses(c) = log[PollIndex(c)].ready

C12_Witness ==
    \E c \in Cycles :
        /\ CycleOver(c)
        /\ ~CycleErr(c)
        /\ Len(log[PollIndex(c)].ready) = 2
        /\ CycleBuses(c) = log[PollIndex(c)].ready

HandlerSendCalls ==
    { i \in SendCalls : log[i].by = "handler" /\ log[i].res = Ok }

\* C13: every send_to the handler made during a handle call and that
\* returned Ok has put its frame on its bus while the frame being handled
\* was the last one received and within the same poll cycle, that is before
\* the next recv_routed_message on any bus and before the next poll.
C13_HandlerSendsWritten ==
    \A i \in HandlerSendCalls :
        LET r == ReceivedFrame(log[i].n)
        IN  /\ Cardinality(EmittedByCall(i)) = 1
            /\ \A e \in EmittedByCall(i) :
                  /\ e[1] = log[i].bus
                  /\ outq[e[1]][e[2]].at = r
                  /\ outq[e[1]][e[2]].cycle = received[r].cycle

C13_Witness ==
    \E i \in HandlerSendCalls :
        /\ EmittedByCall(i) # {}
        /\ Len(received) > ReceivedFrame(log[i].n)
        /\ Cardinality(PollCalls) > received[ReceivedFrame(log[i].n)].cycle

\* The controller is in recv_routed_message on a ready bus that has no
\* frame to give.
Waiting == pc = "recv" /\ inq[Head(service_buses)] = <<>>

\* C14 as stated: a bus reported ready that yields no frame is skipped: the
\* controller does not stay on it, and goes on to the remaining ready buses
\* or to the next poll, whether or not the transport does anything more.
C14_SpuriousSkipped == Waiting ~> ~Waiting

\* The first event that follows a handle call and is not one of its sends.
FirstAfter(h) == CHOOSE j \in AfterHandle(h) : \A k \in AfterHandle(h) : j <= k

\* C15: an error returned by handler.handle reaches handle_err as an ESB
\* error, in the very next call on the handler and in no second call; the
\* loop has ended after it only if that or a later handle_err call returned
\* an error, and is back at the poll when handle_err returned Ok.  A handle
\* call that returned Ok is not followed by a handle_err call of its own.
C15_HandlerErrors ==
    \A h \in DOMAIN log :
        log[h].ev = "handle" =>
            IF log[h].ret = Ok
            THEN /\ AfterHandle(h) = {} => pc \notin {"handle_err", "terminated"}
                 /\ AfterHandle(h) # {} => log[FirstAfter(h)].ev # "handle_err"
            ELSE /\ log[h].ret.kind \in ErrorKinds
                 /\ AfterHandle(h) = {} => (pc = "handle_err" /\ err = log[h].ret)
                 /\ AfterHandle(h) # {} =>
                       LET j == FirstAfter(h)
                       IN  /\ log[j].ev = "handle_err"
                           /\ log[j].error = log[h].ret
                           /\ j < Len(log) => log[j + 1].ev = "poll"
                           /\ (j = Len(log) /\ log[j].ret = Ok) => pc = "poll"
                           /\ pc = "terminated" =>
                                 \E k \in HandleErrCalls :
                                     k >= j /\ log[k].ret # Ok

C15_Witness ==
    \E h \in DOMAIN log :
        /\ log[h].ev = "handle"
        /\ log[h].ret = Error("ServiceError", "handler")
        /\ h + 2 \in PollCalls
        /\ log[h + 1].ret = Ok

\* Frames received whose servicing has not produced its handle call, its
\* forward or its decode failure yet: the frames the controller holds.
HeldFrames ==
    { i \in DOMAIN received :
        LET n == received[i].frame.n
        IN  HandleCalls(n) \cup ForwardCalls(n) \cup DecodeFailures(n) = {} }

\* The three states of spec 4.6 over the positions of the loop: Polling is
\* the poll call, Servicing everything between its return and the next
\* poll; a controller that does not exist (yet, or any more) has no state.
State3 ==
    CASE pc = "constructed" -> "Constructed"
      [] pc = "poll" -> "Polling"
      [] pc \in {"recv", "dispatch", "handle_err"} -> "Servicing"
      [] OTHER -> "None"

\* C16 as stated: the controller is in one of Constructed, Polling and
\* Servicing, moving only from Constructed to Polling, from Polling to
\* Servicing and from Servicing to Polling; it holds no frame in Polling
\* and exactly one frame in Servicing.
C16_ThreeStates ==
    /\ [](State3 \in {"Constructed", "Polling"} =>
            (HeldFrames = {} /\ routed_frame = NoFrame))
    /\ [](State3 = "Servicing" =>
            (Cardinality(HeldFrames) = 1 /\ routed_frame # NoFrame))
    /\ [][ State3' # State3 =>
            << State3, State3' >> \in
                { << "None", "Constructed" >>, << "Constructed", "Polling" >>,
                  << "Polling", "Servicing" >>, << "Servicing", "Polling" >>,
                  << "Servicing", "None" >> } ]_vars

\* The positions of the loop: in the poll, in recv_routed_message,
\* servicing a frame, in handle_err, and after try_run_loop has returned.
Position ==
    CASE pc = "constructed" -> "Constructed"
      [] pc = "poll" -> "Polling"
      [] pc = "recv" -> "Receiving"
      [] pc = "dispatch" -> "Servicing"
      [] pc = "handle_err" -> "Reporting"
      [] pc = "terminated" -> "Ended"
      [] OTHER -> "None"

\* C16 amended: the controller is Constructed, Polling, Receiving (in
\* recv_routed_message on a ready bus), Servicing, Reporting (in
\* handle_err) or Ended; it holds exactly one frame in Servicing, the one
\* last received, and none anywhere else, so never two at once; and it
\* moves only from Constructed to Polling, from Polling to Receiving, from
\* Receiving to Servicing, from Servicing to Receiving (next ready bus of
\* the cycle) or Polling, from Polling, Receiving and Servicing to
\* Reporting on an error, and from Reporting to Polling when handle_err
\* returned Ok and to Ended when it returned an error.
C16_StateMachine ==
    /\ [](Position = "Servicing" =>
            /\ HeldFrames = {Len(received)}
            /\ routed_frame = received[Len(received)].frame)
    /\ [](Position # "Servicing" =>
            (HeldFrames = {} /\ routed_frame = NoFrame))
    /\ [][ Position' # Position =>
            /\ << Position, Position' >> \in
                  { << "None", "Constructed" >>,
                    << "Constructed", "Polling" >>,
                    << "Polling", "Receiving" >>, << "Polling", "Reporting" >>,
                    << "Receiving", "Servicing" >>, << "Receiving", "Reporting" >>,
                    << "Servicing", "Receiving" >>, << "Servicing", "Polling" >>,
                    << "Servicing", "Reporting" >>,
                    << "Reporting", "Polling" >>, << "Reporting", "Ended" >> }
            /\ Position = "Reporting" =>
                  (Position' = "Polling" <=> log'[Len(log')].ret = Ok) ]_vars

C16_Witness ==
    /\ pc = "dispatch"
    /\ Len(received) = 2
    /\ received[1].cycle = received[2].cycle
    /\ HeldFrames = {2}

\* C17: every send_to call has written at most one frame, and only to the
\* bus it was called with; a step in which send_to is called takes no frame
\* from any bus, leaves every inbound queue as it is and makes no poll.
C17_SendersNeverReads ==
    /\ [](\A i \in SendCalls :
            /\ Cardinality(EmittedByCall(i)) <= 1
            /\ \A e \in EmittedByCall(i) : e[1] = log[i].bus)
    /\ [][ (\E i \in DOMAIN log' \ DOMAIN log : log'[i].ev = "send_to") =>
            /\ inq' = inq
            /\ received' = received
            /\ \A i \in DOMAIN log' \ DOMAIN log :
                  log'[i].ev \notin {"poll", "recv_err"} ]_vars

C17_Witness ==
    \E i \in SendCalls : \E b \in Owned :
        /\ log[i].res = Ok
        /\ EmittedByCall(i) # {}
        /\ inq[b] # <<>>
        /\ Head(inq[b]).n < log[i].n

\* C18: after a successful init the owned buses are exactly the keys of
\* the bus configuration, every socket built from a locator has the
\* controller's identity as its socket identity, and the controller's
\* identity and the router stored in Senders are the arguments of init;
\* after a failed init the result is a transport error, there is no
\* controller (no socket, no identity, no call ever made) and there never
\* will be; init fails only on a locator.
C18_Construction ==
    /\ [](pc \notin {"start", "init_failed"} =>
            /\ Owned = DOMAIN service_bus
            /\ \A b \in Owned :
                  service_bus[b].kind = "Locator" =>
                      sessions[b].identity = arg_identity
            /\ identity = arg_identity
            /\ router = arg_router)
    /\ [](pc = "init_failed" =>
            /\ result.kind = "Transport"
            /\ sessions = NoSessions
            /\ identity = "" /\ router = ""
            /\ log = <<>> /\ received = <<>> /\ Emitted = {}
            /\ \E b \in DOMAIN service_bus : service_bus[b].kind = "Locator")
    /\ [][pc = "init_failed" => pc' = "init_failed"]_vars

C18_Witness ==
    /\ pc = "poll"
    /\ Cardinality(Owned) = 2
    /\ \E b \in Owned : service_bus[b].kind = "Locator"
    /\ \E b \in Owned : service_bus[b].kind = "Socket"
    /\ router # identity

\* Events of the RPC client's log that belong to one call of request.
RpcSends(id) ==
    { i \in DOMAIN rpc_log : rpc_log[i].ev = "send" /\ rpc_log[i].id = id }

RpcRecvs(id) ==
    { i \in DOMAIN rpc_log : rpc_log[i].ev = "recv" /\ rpc_log[i].id = id }

RpcReturns(id) ==
    { i \in DOMAIN rpc_log : rpc_log[i].ev = "return" /\ rpc_log[i].id = id }

\* A failing socket operation is the last thing its call does: the next
\* event is the return of that call, with a transport error.
ReturnsTransportError(i) ==
    /\ i + 1 \in RpcReturns(rpc_log[i].id)
    /\ rpc_log[i + 1].res.kind = "Transport"

\* A reply that does not decode is the last thing its call does: the next
\* event is the return of that call, with a presentation error.
ReturnsDecodeError(i) ==
    /\ i + 1 \in RpcReturns(rpc_log[i].id)
    /\ rpc_log[i + 1].res.kind = "Presentation"

\* What every call does with a failing send, a failing receive and a reply
\* that does not decode.
TransportAndDecodeErrors ==
    \A i \in DOMAIN rpc_log :
        /\ (rpc_log[i].ev = "send" /\ ~rpc_log[i].ok) =>
              (ReturnsTransportError(i) /\ RpcRecvs(rpc_log[i].id) = {})
        /\ (rpc_log[i].ev = "recv" /\ ~rpc_log[i].ok) => ReturnsTransportError(i)
        /\ (rpc_log[i].ev = "recv" /\ rpc_log[i].ok) =>
              /\ i + 1 \in RpcReturns(rpc_log[i].id)
              /\ rpc_log[i + 1].res.kind \in {"Reply", "Presentation"}

\* C19 as stated: a call of request with a tag that is not in the endpoint
\* map returns UnknownEndpoint(tag) and sends nothing; a transport error on
\* send or receive and a decode error on the reply are what the call
\* returns.
C19_UnknownEndpointAlways ==
    /\ \A c \in RpcCalls :
          rpc_log[c].endpoint \notin DOMAIN rpc_sessions =>
              /\ RpcSends(rpc_log[c].id) = {}
              /\ \E r \in RpcReturns(rpc_log[c].id) :
                    rpc_log[r].res = Error("UnknownEndpoint", rpc_log[c].endpoint)
    /\ TransportAndDecodeErrors

\* C19 amended: a call of request with a tag that is not in the endpoint
\* map sends and receives nothing on any socket and returns at once, with
\* UnknownEndpoint(tag) when the request encodes and with the encoding error
\* when it does not; a transport error on send or receive and a decode
\* error on the reply are what the call returns, with nothing done after
\* them.
C19_ClientErrors ==
    /\ \A c \in RpcCalls :
          rpc_log[c].endpoint \notin DOMAIN rpc_sessions =>
              /\ RpcSends(rpc_log[c].id) = {}
              /\ RpcRecvs(rpc_log[c].id) = {}
              /\ c + 1 \in RpcReturns(rpc_log[c].id)
              /\ rpc_log[c + 1].res =
                    IF rpc_log[c].request = Unencodable
                    THEN RpcFromPresentation("encode")
                    ELSE Error("UnknownEndpoint", rpc_log[c].endpoint)
    /\ TransportAndDecodeErrors

C19_Witness ==
    /\ \E c \in RpcCalls :
          /\ rpc_log[c].endpoint \notin DOMAIN rpc_sessions
          /\ rpc_log[c + 1].res = Error("UnknownEndpoint", "E3")
    /\ \E i \in DOMAIN rpc_log :
          /\ rpc_log[i].ev = "recv"
          /\ rpc_log[i + 1].res.kind = "Presentation"
    /\ \E i \in DOMAIN rpc_log :
          /\ rpc_log[i].ev = "recv"
          /\ ~rpc_log[i].ok

\* The sends and receives that one socket completed, in order.
SocketOps(tag) ==
    SelectSeq(rpc_log, LAMBDA e :
        e.ev \in {"send", "recv"} /\ e.ok /\ e.endpoint = tag)

\* C20: a call of request makes at most one send and at most one receive,
\* the send on the socket of its tag, the receive only after its send
\* succeeded and on the same socket, and no send after its receive; on every
\* socket the completed sends and receives alternate, starting with a send;
\* and the reply a call receives and returns answers the request of that
\* call.
C20_StrictAlternation ==
    /\ \A c \in RpcCalls :
          LET id == rpc_log[c].id
          IN  /\ Cardinality(RpcSends(id)) <= 1
              /\ Cardinality(RpcRecvs(id)) <= 1
              /\ \A i \in RpcSends(id) :
                    i > c /\ rpc_log[i].endpoint = rpc_log[c].endpoint
              /\ \A r \in RpcRecvs(id) :
                    \E i \in RpcSends(id) :
                        /\ i < r
                        /\ rpc_log[i].ok
                        /\ rpc_log[i].endpoint = rpc_log[r].endpoint
              /\ \A r \in RpcReturns(id) :
                    /\ \A i \in RpcSends(id) \cup RpcRecvs(id) : i < r
                    /\ rpc_log[r].res.kind = "Reply" =>
                          (rpc_log[r].res.re = id /\ RpcRecvs(id) # {})
    /\ \A i \in DOMAIN rpc_log :
          (rpc_log[i].ev = "recv" /\ rpc_log[i].ok) => rpc_log[i].re = rpc_log[i].id
    /\ \A tag \in DOMAIN rpc_sessions :
          \A i \in DOMAIN SocketOps(tag) :
              SocketOps(tag)[i].ev = IF i % 2 = 1 THEN "send" ELSE "recv"

C20_Witness ==
    /\ \E tag \in DOMAIN rpc_sessions :
          /\ rpc_sessions[tag].inbox # <<>>
          /\ \E i \in DOMAIN rpc_log :
                /\ rpc_log[i].ev = "send"
                /\ rpc_log[i].endpoint = tag
                /\ ~rpc_log[i].ok
                /\ rpc_log[i].id > Head(rpc_sessions[tag].inbox).re
    /\ \E r \in DOMAIN rpc_log :
          /\ rpc_log[r].ev = "return"
          /\ rpc_log[r].res.kind = "Reply"

\* ============================================================ address codec
\* inet2_addr: InetAddr, InetSocketAddr, InetSocketAddrExt and Transport.
\* The functions are pure; the model calls them on bounded samples of their
\* inputs and records each call in addr_call.  Byte strings are sequences of
\* numbers 0..255 at their real widths.  The `tor` feature of the build is an
\* input of every function whose code it changes.

\* Option<T> and Result<T, E>.
None == [some |-> FALSE]
Some(v) == [some |-> TRUE, val |-> v]
AddrOk(v) == [ok |-> TRUE, val |-> v]
AddrErr(e) == [ok |-> FALSE, err |-> e]

\* Rust slices: buf[i], buf[i..], buf[..i], and copy_from_slice(src) into the
\* part of buf that starts at i.
Zeros(n) == [i \in 1..n |-> 0]
Filled(n, b) == [i \in 1..n |-> b]
ByteAt(buf, i) == buf[i + 1]
SliceFrom(buf, i) == SubSeq(buf, i + 1, Len(buf))
SliceTo(buf, i) == SubSeq(buf, 1, i)
CopyFrom(buf, i, src) ==
    [k \in 1..Len(buf) |->
        IF k > i /\ k <= i + Len(src) THEN src[k - i] ELSE buf[k]]
SetByte(buf, i, b) == [buf EXCEPT ![i + 1] = b]

\* The width of a Tor v3 public key (torut).
TORV3_PUBLIC_KEY_LENGTH == 32

UNIFORM_ADDR_LEN == TORV3_PUBLIC_KEY_LENGTH + 1
IPV4_TAG == 0
IPV6_TAG == 1
TORV2_TAG == 2
TORV3_TAG == 3

\* The four cases of InetAddr.
IPv4(b) == [case |-> "IPv4", bytes |-> b]
IPv6(b) == [case |-> "IPv6", bytes |-> b]
TorV2(b) == [case |-> "TorV2", bytes |-> b]
Tor(b) == [case |-> "Tor", bytes |-> b]

\* Sampled payloads: 0.0.0.0, 127.0.0.1, 255.255.255.255, 1.2.3.4; ::, ::1,
\* ::ffff:127.0.0.1 and the all-ones address; three onion v2 identifiers.
Ipv4Addrs == { <<0, 0, 0, 0>>, <<127, 0, 0, 1>>, <<255, 255, 255, 255>>,
               <<1, 2, 3, 4>> }
Ipv6Mapped(b) == Zeros(10) \o <<255, 255>> \o b
Ipv6Addrs == { Zeros(16), Zeros(15) \o <<1>>, Ipv6Mapped(<<127, 0, 0, 1>>),
               Filled(16, 255) }
OnionV2s == { Zeros(10), [i \in 1..10 |-> i], Filled(10, 255) }

\* 32-byte strings.  TorPublicKeyV3::from_bytes accepts a string only when it
\* is a compressed point of the Ed25519 curve; CurvePoints are the sampled
\* strings that are (decided by decompressing each of them), and the other
\* sampled strings are not.
LeftPad32(b) == Zeros(32 - Len(b)) \o b
CurvePoints == { Zeros(32), Filled(32, 3), Filled(32, 255),
                 LeftPad32(<<255, 255, 255, 255>>), LeftPad32(<<1, 2, 3, 4>>),
                 LeftPad32(Ipv6Mapped(<<127, 0, 0, 1>>)),
                 LeftPad32(Filled(16, 255)) }
NotCurvePoints == { [i \in 1..32 |-> i], <<2>> \o Zeros(31),
                    LeftPad32(<<127, 0, 0, 1>>), LeftPad32(Zeros(15) \o <<1>>),
                    LeftPad32([i \in 1..10 |-> i]),
                    LeftPad32(Filled(10, 255)) }
Keys32 == CurvePoints \cup NotCurvePoints
TorPublicKeyV3_from_bytes(a) ==
    IF a \in CurvePoints THEN AddrOk(a) ELSE AddrErr("SignatureError")
TorKeys == { Zeros(32), Filled(32, 3), Filled(32, 255) }

\* The addresses a build can hold.
InetAddrs(tor) ==
    { IPv4(b) : b \in Ipv4Addrs } \cup { IPv6(b) : b \in Ipv6Addrs } \cup
    (IF tor THEN { TorV2(b) : b \in OnionV2s } \cup { Tor(b) : b \in TorKeys }
            ELSE {})

\* A variant of to_uniform_encoding that writes every payload right after the
\* tag byte.
InetAddr_to_uniform_encoding_LeftAligned(a) ==
    LET buf == Zeros(UNIFORM_ADDR_LEN) IN
    CASE a.case = "IPv4" -> CopyFrom(SetByte(buf, 0, IPV4_TAG), 1, a.bytes)
      [] a.case = "IPv6" -> CopyFrom(SetByte(buf, 0, IPV6_TAG), 1, a.bytes)
      [] a.case = "Tor" -> CopyFrom(SetByte(buf, 0, TORV3_TAG), 1, a.bytes)
      [] a.case = "TorV2" -> CopyFrom(SetByte(buf, 0, TORV2_TAG), 1, a.bytes)

\* InetAddr::to_uniform_encoding
InetAddr_to_uniform_encoding(a) ==
    LET buf == Zeros(UNIFORM_ADDR_LEN) IN
    CASE a.case = "IPv4" -> CopyFrom(SetByte(buf, 0, IPV4_TAG), 29, a.bytes)
      [] a.case = "IPv6" -> CopyFrom(SetByte(buf, 0, IPV6_TAG), 17, a.bytes)
      [] a.case = "Tor" -> CopyFrom(SetByte(buf, 0, TORV3_TAG), 1, a.bytes)
      [] a.case = "TorV2" -> CopyFrom(SetByte(buf, 0, TORV2_TAG), 23, a.bytes)

\* A variant of from_uniform_encoding that rejects an IPv4 or IPv6 input
\* whose bytes between the tag and the payload are not all zero.
InetAddr_from_uniform_encoding_Strict(tor, data) ==
    IF Len(data) # UNIFORM_ADDR_LEN THEN None
    ELSE CASE ByteAt(data, 0) = IPV4_TAG ->
                IF SubSeq(data, 2, 29) = Zeros(28)
                THEN Some(IPv4(SliceFrom(data, 29))) ELSE None
           [] ByteAt(data, 0) = IPV6_TAG ->
                IF SubSeq(data, 2, 17) = Zeros(16)
                THEN Some(IPv6(SliceFrom(data, 17))) ELSE None
           [] tor /\ ByteAt(data, 0) = TORV3_TAG ->
                LET key == TorPublicKeyV3_from_bytes(SliceFrom(data, 1)) IN
                IF key.ok THEN Some(Tor(key.val)) ELSE None
           [] OTHER -> None

\* InetAddr::from_uniform_encoding
InetAddr_from_uniform_encoding(tor, data) ==
    IF Len(data) # UNIFORM_ADDR_LEN THEN None
    ELSE CASE ByteAt(data, 0) = IPV4_TAG -> Some(IPv4(SliceFrom(data, 29)))
           [] ByteAt(data, 0) = IPV6_TAG -> Some(IPv6(SliceFrom(data, 17)))
           [] tor /\ ByteAt(data, 0) = TORV3_TAG ->
                LET key == TorPublicKeyV3_from_bytes(SliceFrom(data, 1)) IN
                IF key.ok THEN Some(Tor(key.val)) ELSE None
           [] OTHER -> None

\* UniformEncodingError
WrongLength(len) == [error |-> "WrongLength", len |-> len]
InvalidFormat == [error |-> "InvalidFormat"]

\* TryFrom<[u8; TORV3_PUBLIC_KEY_LENGTH]> for InetAddr (tor builds only)
InetAddr_try_from_key(value) ==
    LET buf == CopyFrom(Filled(UNIFORM_ADDR_LEN, 3), 1, value)
        dec == InetAddr_from_uniform_encoding(TRUE, buf)
    IN  IF dec.some THEN AddrOk(dec.val) ELSE AddrErr(InvalidFormat)

\* A variant of try_from that reports every other length as InvalidFormat.
InetAddr_try_from_NoLength(tor, value) ==
    CASE Len(value) = 4 -> AddrOk(IPv4(value))
      [] Len(value) = 16 -> AddrOk(IPv6(value))
      [] tor /\ Len(value) = 32 -> InetAddr_try_from_key(value)
      [] OTHER -> AddrErr(InvalidFormat)

\* TryFrom<&[u8]> for InetAddr
InetAddr_try_from(tor, value) ==
    CASE Len(value) = 4 -> AddrOk(IPv4(value))
      [] Len(value) = 16 -> AddrOk(IPv6(value))
      [] tor /\ Len(value) = 32 -> InetAddr_try_from_key(value)
      [] OTHER -> AddrErr(WrongLength(Len(value)))

\* InetAddr::to_ipv6 and InetAddr::to_ipv4; Ipv4Addr::to_ipv6_mapped.
to_ipv6_mapped(b) == Ipv6Mapped(b)
to_ipv6(a) ==
    CASE a.case = "IPv4" -> Some([type |-> "Ipv6Addr",
                                  bytes |-> to_ipv6_mapped(a.bytes)])
      [] a.case = "IPv6" -> Some([type |-> "Ipv6Addr", bytes |-> a.bytes])
      [] OTHER -> None
to_ipv4(a) ==
    CASE a.case = "IPv4" -> Some([type |-> "Ipv6Addr",
                                  bytes |-> to_ipv6_mapped(a.bytes)])
      [] a.case = "IPv6" -> Some([type |-> "Ipv6Addr", bytes |-> a.bytes])
      [] OTHER -> None

\* Ordering, and the order of byte strings ([u8; N], Ipv4Addr, Ipv6Addr).
Less == "Less"
Equal == "Equal"
Greater == "Greater"
BytesCmp(x, y) ==
    LET D == { i \in 1..Len(x) : i <= Len(y) /\ x[i] # y[i] } IN
    IF D = {}
    THEN IF Len(x) < Len(y) THEN Less
         ELSE IF Len(x) > Len(y) THEN Greater ELSE Equal
    ELSE LET i == CHOOSE k \in D : \A j \in D : k <= j IN
         IF x[i] < y[i] THEN Less ELSE Greater

\* A variant of partial_cmp without the arms that answer Less when the
\* right-hand side is the greater case.
partial_cmp_OneSided(a, b) ==
    IF a.case = b.case THEN Some(BytesCmp(a.bytes, b.bytes))
    ELSE IF a.case = "IPv4" THEN Some(Greater)
    ELSE IF a.case = "IPv6" THEN Some(Greater)
    ELSE IF a.case = "TorV2" THEN Some(Greater)
    ELSE Some(Less)

\* PartialOrd for InetAddr
partial_cmp(a, b) ==
    IF a.case = b.case THEN Some(BytesCmp(a.bytes, b.bytes))
    ELSE IF a.case = "IPv4" THEN Some(Greater)
    ELSE IF b.case = "IPv4" THEN Some(Less)
    ELSE IF a.case = "IPv6" THEN Some(Greater)
    ELSE IF b.case = "IPv6" THEN Some(Less)
    ELSE IF a.case = "TorV2" THEN Some(Greater)
    ELSE Some(Less)

\* Ord for InetAddr
cmp(a, b) == LET o == partial_cmp(a, b) IN IF o.some THEN o.val ELSE Equal

\* Transport, with its discriminants (repr(u8)).
Transports == { "Tcp", "Udp", "Mtcp", "Quic" }
Transport_as_u8(t) ==
    CASE t = "Tcp" -> 1 [] t = "Udp" -> 2 [] t = "Mtcp" -> 3 [] t = "Quic" -> 4

\* Transport::from_uniform_encoding and Transport::to_uniform_encoding
Transport_from_uniform_encoding(data) ==
    IF data = Transport_as_u8("Tcp") THEN Some("Tcp")
    ELSE IF data = Transport_as_u8("Udp") THEN Some("Udp")
    ELSE IF data = Transport_as_u8("Mtcp") THEN Some("Mtcp")
    ELSE IF data = Transport_as_u8("Quic") THEN Some("Quic")
    ELSE None
Transport_to_uniform_encoding(t) == Transport_as_u8(t)

\* Text is a sequence of characters.  str::to_lowercase maps each character
\* to its lower-case form, which for U+0130 (capital I with a dot above) is
\* two characters: "i" and the combining dot U+0307.
LowerOf(c) ==
    CASE c = "T" -> <<"t">> [] c = "C" -> <<"c">> [] c = "P" -> <<"p">>
      [] c = "U" -> <<"u">> [] c = "D" -> <<"d">> [] c = "M" -> <<"m">>
      [] c = "Q" -> <<"q">> [] c = "I" -> <<"i">>
      [] c = "U+0130" -> <<"i", "U+0307">>
      [] OTHER -> <<c>>
RECURSIVE to_lowercase(_)
to_lowercase(s) ==
    IF s = <<>> THEN <<>> ELSE LowerOf(Head(s)) \o to_lowercase(Tail(s))

\* AddrParseError
UnknownProtocolError(s) == [error |-> "UnknownProtocolError", text |-> s]
WrongAddrFormat(s) == [error |-> "WrongAddrFormat", text |-> s]
NeedsTorFeature == [error |-> "NeedsTorFeature"]

\* A variant of from_str that compares the text as written.
Transport_from_str_CaseSensitive(s) ==
    IF s = <<"t", "c", "p">> THEN AddrOk("Tcp")
    ELSE IF s = <<"u", "d", "p">> THEN AddrOk("Udp")
    ELSE IF s = <<"m", "t", "c", "p">> THEN AddrOk("Mtcp")
    ELSE IF s = <<"q", "u", "i", "c">> THEN AddrOk("Quic")
    ELSE AddrErr(UnknownProtocolError(s))

\* FromStr for Transport
Transport_from_str(s) ==
    LET l == to_lowercase(s) IN
    IF l = <<"t", "c", "p">> THEN AddrOk("Tcp")
    ELSE IF l = <<"u", "d", "p">> THEN AddrOk("Udp")
    ELSE IF l = <<"m", "t", "c", "p">> THEN AddrOk("Mtcp")
    ELSE IF l = <<"q", "u", "i", "c">> THEN AddrOk("Quic")
    ELSE AddrErr(UnknownProtocolError(s))

\* Display for Transport
Transport_fmt(t) ==
    CASE t = "Tcp" -> <<"t", "c", "p">>
      [] t = "Udp" -> <<"u", "d", "p">>
      [] t = "Mtcp" -> <<"m", "t", "c", "p">>
      [] t = "Quic" -> <<"q", "u", "i", "c">>

\* InetSocketAddr: an address and a port (u16).
Ports == { 0, 1, 255, 256, 6865, 65535 }
InetSocketAddr_new(address, port) == [address |-> address, port |-> port]
InetSocketAddrs(tor) ==
    { InetSocketAddr_new(a, p) : a \in InetAddrs(tor), p \in Ports }
to_be_bytes(port) == << port \div 256, port % 256 >>
from_be_bytes(buf) == buf[1] * 256 + buf[2]

InetSocketAddr_UNIFORM_ADDR_LEN == UNIFORM_ADDR_LEN + 2

\* InetSocketAddr::to_uniform_encoding
InetSocketAddr_to_uniform_encoding(sa) ==
    LET buf == Zeros(InetSocketAddr_UNIFORM_ADDR_LEN) IN
    CopyFrom(CopyFrom(buf, 0, InetAddr_to_uniform_encoding(sa.address)),
             UNIFORM_ADDR_LEN, to_be_bytes(sa.port))

\* InetSocketAddr::from_uniform_encoding
InetSocketAddr_from_uniform_encoding(tor, data) ==
    IF Len(data) # InetSocketAddr_UNIFORM_ADDR_LEN THEN None
    ELSE LET address == InetAddr_from_uniform_encoding(
                            tor, SliceTo(data, UNIFORM_ADDR_LEN))
         IN  IF ~address.some THEN None
             ELSE Some(InetSocketAddr_new(
                      address.val,
                      from_be_bytes(SliceFrom(data, UNIFORM_ADDR_LEN))))

\* InetSocketAddrExt(Transport, InetSocketAddr)
InetSocketAddrExt(t, sa) == << t, sa >>
InetSocketAddrExts(tor) ==
    { InetSocketAddrExt(t, sa) : t \in Transports, sa \in InetSocketAddrs(tor) }

InetSocketAddrExt_UNIFORM_ADDR_LEN == InetSocketAddr_UNIFORM_ADDR_LEN + 1

\* InetSocketAddrExt::to_uniform_encoding
InetSocketAddrExt_to_uniform_encoding(x) ==
    LET buf == Zeros(InetSocketAddrExt_UNIFORM_ADDR_LEN) IN
    CopyFrom(SetByte(buf, 0, Transport_to_uniform_encoding(x[1])), 1,
             InetSocketAddr_to_uniform_encoding(x[2]))

\* InetSocketAddrExt::from_uniform_encoding
InetSocketAddrExt_from_uniform_encoding(tor, data) ==
    IF Len(data) # InetSocketAddrExt_UNIFORM_ADDR_LEN THEN None
    ELSE LET t == Transport_from_uniform_encoding(ByteAt(data, 0))
             sa == InetSocketAddr_from_uniform_encoding(
                       tor, SliceFrom(data, 1))
         IN  IF ~t.some THEN None
             ELSE IF ~sa.some THEN None
             ELSE Some(InetSocketAddrExt(t.val, sa.val))

\* FromStr for InetAddr.  The three family parsers (IpAddr, OnionAddressV3,
\* OnionAddressV2) are the standard library's and torut's: the model takes
\* the outcome of each on the text as an input.  From<IpAddr> keeps the
\* family of the IP address; From<OnionAddressV3> keeps the public key.
IpOutcomes ==
    { AddrErr("AddrParseError") } \cup
    { AddrOk(IPv4(<<127, 0, 0, 1>>)), AddrOk(IPv6(Zeros(15) \o <<1>>)) }
OnionV3Outcomes ==
    { AddrErr("OnionAddressParseError"), AddrOk(Tor(Filled(32, 3))) }
OnionV2Outcomes ==
    { AddrErr("OnionAddressParseError"), AddrOk(TorV2([i \in 1..10 |-> i])) }
InetAddr_from_str_FirstMatch(tor, s, ip, onionv3, onionv2) ==
    IF tor
    THEN IF ip.ok THEN AddrOk(ip.val)
         ELSE IF onionv3.ok THEN AddrOk(onionv3.val)
         ELSE IF onionv2.ok THEN AddrOk(onionv2.val)
         ELSE AddrErr(WrongAddrFormat(s))
    ELSE IF ip.ok THEN AddrOk(ip.val) ELSE AddrErr(NeedsTorFeature)
InetAddr_from_str(tor, s, ip, onionv3, onionv2) ==
    IF tor
    THEN IF \/ ip.ok /\ onionv3.ok
            \/ ip.ok /\ onionv2.ok
            \/ onionv3.ok /\ onionv2.ok
         THEN AddrErr(WrongAddrFormat(s))
         ELSE IF ip.ok THEN AddrOk(ip.val)
         ELSE IF onionv3.ok THEN AddrOk(onionv3.val)
         ELSE IF onionv2.ok THEN AddrOk(onionv2.val)
         ELSE AddrErr(WrongAddrFormat(s))
    ELSE IF ip.ok THEN AddrOk(ip.val) ELSE AddrErr(NeedsTorFeature)

\* ------------------------------------------------------ inputs of the calls
Builds == BOOLEAN
SampleTags == { 0, 1, 2, 3, 4, 5, 128, 255 }

\* Byte strings handed to InetAddr::from_uniform_encoding: every sampled
\* 32-byte string under every sampled tag (the encodings of all sampled
\* addresses are among them), and strings of other lengths.
AddrEncodings == { InetAddr_to_uniform_encoding(a) : a \in InetAddrs(TRUE) }
UniformInputs == { <<t>> \o k : t \in SampleTags, k \in Keys32 }
WrongLengthInputs ==
    { <<>>, <<0>>, <<3>>, <<0, 127, 0, 0, 1>> } \cup Keys32 \cup
    { SliceTo(e, UNIFORM_ADDR_LEN - 1) : e \in AddrEncodings } \cup
    { e \o <<0>> : e \in AddrEncodings } \cup
    { <<0>> \o e : e \in AddrEncodings }
DecodeInputs == UniformInputs \cup WrongLengthInputs

\* Byte strings handed to TryFrom<&[u8]>.
SliceInputs ==
    Ipv4Addrs \cup Ipv6Addrs \cup OnionV2s \cup Keys32 \cup AddrEncodings \cup
    { Zeros(n) : n \in { 0, 1, 3, 5, 15, 17, 31, 34, 35, 36 } }

\* Byte strings handed to the decoders of the socket addresses.
SocketEncodings ==
    { InetSocketAddr_to_uniform_encoding(sa) : sa \in InetSocketAddrs(TRUE) }
SocketInputs ==
    { d \o to_be_bytes(p) : d \in UniformInputs, p \in { 0, 6865 } } \cup
    { SliceTo(e, InetSocketAddr_UNIFORM_ADDR_LEN - 1) :
        e \in SocketEncodings } \cup
    { e \o <<0>> : e \in SocketEncodings } \cup AddrEncodings \cup { <<>> }
ExtInputs ==
    { <<t>> \o e : t \in SampleTags, e \in SocketEncodings } \cup
    { <<1>> \o d \o to_be_bytes(6865) : d \in UniformInputs } \cup
    { <<1>> \o e \o <<0>> : e \in SocketEncodings } \cup
    SocketEncodings \cup AddrEncodings \cup { <<>> }

\* Transport names in every mix of upper and lower case, and other texts.
UpperOf(c) ==
    CASE c = "t" -> "T" [] c = "c" -> "C" [] c = "p" -> "P" [] c = "u" -> "U"
      [] c = "d" -> "D" [] c = "m" -> "M" [] c = "q" -> "Q" [] c = "i" -> "I"
      [] OTHER -> c
RECURSIVE Variants(_)
Variants(s) ==
    IF s = <<>> THEN { <<>> }
    ELSE { <<c>> \o r : c \in { Head(s), UpperOf(Head(s)) },
                        r \in Variants(Tail(s)) }
TransportNames == UNION { Variants(Transport_fmt(t)) : t \in Transports }
OtherTexts ==
    { <<>>, <<"t", "c">>, <<"t", "c", "p", "x">>, <<" ", "t", "c", "p">>,
      <<"i", "p">>, <<"s", "c", "t", "p">>, <<"T", "C", "P", "4">>,
      <<"u", "d", "p", "l", "i", "t", "e">>, <<"Q", "U", "U+0130", "C">>,
      <<"q", "u", "U+0131", "c">>, <<"1">> }
Texts == TransportNames \cup OtherTexts
AddrTexts == { "text1", "text2" }

\* ------------------------------------------------------------------- calls
\* One call at a time: a call is made when none is in progress, its result
\* is recorded, and AddrReturn ends it.
\* Encode an address and decode the result.
UniformRoundTrip ==
    /\ addr_call = NoAddrCall
    /\ \E tor \in Builds : \E a \in InetAddrs(tor) :
        LET enc == InetAddr_to_uniform_encoding(a) IN
        addr_call' = [op |-> "uniform", tor |-> tor, a |-> a, enc |-> enc,
                      dec |-> InetAddr_from_uniform_encoding(tor, enc)]
    /\ UNCHANGED << esb_vars, rpc_vars >>

\* Decode a byte string.
UniformDecode ==
    /\ addr_call = NoAddrCall
    /\ \E tor \in Builds : \E data \in DecodeInputs :
        addr_call' = [op |-> "decode", tor |-> tor, data |-> data,
                      dec |-> InetAddr_from_uniform_encoding(tor, data)]
    /\ UNCHANGED << esb_vars, rpc_vars >>

\* Construct an address from a raw byte slice.
TryFromSlice ==
    /\ addr_call = NoAddrCall
    /\ \E tor \in Builds : \E value \in SliceInputs :
        addr_call' = [op |-> "try_from", tor |-> tor, value |-> value,
                      res |-> InetAddr_try_from(tor, value)]
    /\ UNCHANGED << esb_vars, rpc_vars >>

\* Encode a socket address and decode the result.
SocketRoundTrip ==
    /\ addr_call = NoAddrCall
    /\ \E tor \in Builds : \E sa \in InetSocketAddrs(tor) :
        LET enc == InetSocketAddr_to_uniform_encoding(sa) IN
        addr_call' = [op |-> "socket", tor |-> tor, sa |-> sa, enc |-> enc,
                      dec |-> InetSocketAddr_from_uniform_encoding(tor, enc)]
    /\ UNCHANGED << esb_vars, rpc_vars >>

SocketDecode ==
    /\ addr_call = NoAddrCall
    /\ \E tor \in Builds : \E data \in SocketInputs :
        addr_call' = [op |-> "socket_decode", tor |-> tor, data |-> data,
                      dec |-> InetSocketAddr_from_uniform_encoding(tor, data)]
    /\ UNCHANGED << esb_vars, rpc_vars >>

\* Encode an extended socket address and decode the result.
ExtRoundTrip ==
    /\ addr_call = NoAddrCall
    /\ \E tor \in Builds : \E x \in InetSocketAddrExts(tor) :
        LET enc == InetSocketAddrExt_to_uniform_encoding(x) IN
        addr_call' = [op |-> "ext", tor |-> tor, x |-> x, enc |-> enc,
                      dec |-> InetSocketAddrExt_from_uniform_encoding(tor, enc)]
    /\ UNCHANGED << esb_vars, rpc_vars >>

ExtDecode ==
    /\ addr_call = NoAddrCall
    /\ \E tor \in Builds : \E data \in ExtInputs :
        addr_call' = [op |-> "ext_decode", tor |-> tor, data |-> data,
                      dec |-> InetSocketAddrExt_from_uniform_encoding(tor, data)]
    /\ UNCHANGED << esb_vars, rpc_vars >>

\* Compare three addresses pairwise.
Compare ==
    /\ addr_call = NoAddrCall
    /\ \E tor \in Builds : \E a, b, c \in InetAddrs(tor) :
        addr_call' = [op |-> "cmp", tor |-> tor, a |-> a, b |-> b, c |-> c,
                      ab |-> cmp(a, b), ba |-> cmp(b, a),
                      bc |-> cmp(b, c), ac |-> cmp(a, c)]
    /\ UNCHANGED << esb_vars, rpc_vars >>

\* Parse a transport name.
TransportParse ==
    /\ addr_call = NoAddrCall
    /\ \E s \in Texts :
        addr_call' = [op |-> "transport_parse", s |-> s,
                      res |-> Transport_from_str(s)]
    /\ UNCHANGED << esb_vars, rpc_vars >>

\* Format a transport, parse the text; encode it, decode the byte.
TransportRoundTrip ==
    /\ addr_call = NoAddrCall
    /\ \E t \in Transports :
        LET text == Transport_fmt(t)
            byte == Transport_to_uniform_encoding(t)
        IN  addr_call' = [op |-> "transport", t |-> t, text |-> text,
                          parsed |-> Transport_from_str(text), byte |-> byte,
                          dec |-> Transport_from_uniform_encoding(byte)]
    /\ UNCHANGED << esb_vars, rpc_vars >>

\* Decode a byte as a transport.
TransportDecode ==
    /\ addr_call = NoAddrCall
    /\ \E data \in 0..255 :
        addr_call' = [op |-> "transport_decode", data |-> data,
                      dec |-> Transport_from_uniform_encoding(data)]
    /\ UNCHANGED << esb_vars, rpc_vars >>

\* A build without the tor feature has no onion parsers: none accepts.
OnionParsers(tor, outcomes) ==
    IF tor THEN outcomes ELSE { o \in outcomes : ~o.ok }

\* Parse an address text on which the family parsers had these outcomes.
ParseAddr ==
    /\ addr_call = NoAddrCall
    /\ \E tor \in Builds : \E s \in AddrTexts : \E ip \in IpOutcomes :
       \E onionv3 \in OnionParsers(tor, OnionV3Outcomes) :
       \E onionv2 \in OnionParsers(tor, OnionV2Outcomes) :
        addr_call' = [op |-> "from_str", tor |-> tor, s |-> s, ip |-> ip,
                      onionv3 |-> onionv3, onionv2 |-> onionv2,
                      res |-> InetAddr_from_str(tor, s, ip, onionv3, onionv2)]
    /\ UNCHANGED << esb_vars, rpc_vars >>

\* Ask an address for its IPv4 and IPv6 forms.
ToIp ==
    /\ addr_call = NoAddrCall
    /\ \E tor \in Builds : \E a \in InetAddrs(tor) :
        addr_call' = [op |-> "to_ip", tor |-> tor, a |-> a,
                      ipv4 |-> to_ipv4(a), ipv6 |-> to_ipv6(a)]
    /\ UNCHANGED << esb_vars, rpc_vars >>

\* The call returns.
AddrReturn ==
    /\ addr_call # NoAddrCall
    /\ addr_call' = NoAddrCall
    /\ UNCHANGED << esb_vars, rpc_vars >>

AddrNext ==
    \/ UniformRoundTrip
    \/ UniformDecode
    \/ TryFromSlice
    \/ SocketRoundTrip
    \/ SocketDecode
    \/ ExtRoundTrip
    \/ ExtDecode
    \/ Compare
    \/ TransportParse
    \/ TransportRoundTrip
    \/ TransportDecode
    \/ ParseAddr
    \/ ToIp
    \/ AddrReturn

AddrSpec == Init /\ [][AddrNext]_vars

\* ------------------------------------------------------------------ claims
\* C21: for every address a of every case (IPv4, IPv6, TorV2, TorV3),
\* from_uniform_encoding(to_uniform_encoding(a)) returns a.
C21_UniformRoundTrip ==
    addr_call.op = "uniform" => addr_call.dec = Some(addr_call.a)

\* C22: the uniform encoding of every address is exactly 32 bytes long, of
\* every socket address exactly 34 bytes, and of every extended socket
\* address exactly 35 bytes.
C22_EncodingWidth ==
    /\ addr_call.op = "uniform" => Len(addr_call.enc) = 32
    /\ addr_call.op = "socket" => Len(addr_call.enc) = 34
    /\ addr_call.op = "ext" => Len(addr_call.enc) = 35

\* The case tags and native payload widths, as the layout is stated.
TagOf(case) ==
    CASE case = "IPv4" -> 0 [] case = "IPv6" -> 1
      [] case = "TorV2" -> 2 [] case = "Tor" -> 3
WidthOf(case) ==
    CASE case = "IPv4" -> 4 [] case = "IPv6" -> 16
      [] case = "TorV2" -> 10 [] case = "Tor" -> 32

DefinedTags(tor) == IF tor THEN { 0, 1, 2, 3 } ELSE { 0, 1 }
NativeWidths(tor) == IF tor THEN { 4, 16, 10, 32 } ELSE { 4, 16 }

\* C24: from_uniform_encoding of an address returns no value for every input
\* whose length differs from the uniform length and for every input whose
\* first byte is not one of the defined case tags; constructing an address
\* from a raw byte slice fails with WrongLength(len) for every length that is
\* not the native width of an enabled case.
C24_DecodeRejection ==
    /\ addr_call.op = "decode" =>
        LET data == addr_call.data IN
        /\ Len(data) # UNIFORM_ADDR_LEN => addr_call.dec = None
        /\ Len(data) > 0 /\ data[1] \notin DefinedTags(addr_call.tor)
              => addr_call.dec = None
    /\ addr_call.op = "try_from" =>
        LET len == Len(addr_call.value) IN
        len \notin NativeWidths(addr_call.tor)
            => addr_call.res = AddrErr([error |-> "WrongLength", len |-> len])

\* A slice of 17 bytes was refused with WrongLength(17).
C24_Witness ==
    /\ addr_call.op = "try_from"
    /\ Len(addr_call.value) = 17
    /\ addr_call.res = AddrErr([error |-> "WrongLength", len |-> 17])

\* A string of the uniform length with the undefined tag 4 was refused.
C24_WitnessTag ==
    /\ addr_call.op = "decode"
    /\ Len(addr_call.data) = UNIFORM_ADDR_LEN
    /\ addr_call.data[1] = 4
    /\ addr_call.dec = None

\* Decoding a socket address or an extended socket address fails for a wrong
\* length, for a transport tag outside {1,2,3,4}, and when the embedded
\* address fails to decode.
C25_DecodeFailures ==
    /\ addr_call.op = "socket_decode" =>
        LET data == addr_call.data IN
        (\/ Len(data) # InetSocketAddr_UNIFORM_ADDR_LEN
         \/ ~InetAddr_from_uniform_encoding(
                 addr_call.tor, SliceTo(data, UNIFORM_ADDR_LEN)).some)
            => addr_call.dec = None
    /\ addr_call.op = "ext_decode" =>
        LET data == addr_call.data IN
        (\/ Len(data) # InetSocketAddrExt_UNIFORM_ADDR_LEN
         \/ data[1] \notin { 1, 2, 3, 4 }
         \/ ~InetAddr_from_uniform_encoding(
                 addr_call.tor, SubSeq(data, 2, UNIFORM_ADDR_LEN + 1)).some)
            => addr_call.dec = None

\* C25: the uniform encoding of a socket address is the address encoding
\* followed by the port as 2 big-endian bytes, and of an extended socket
\* address is the 1-byte transport tag (1 = TCP, 2 = UDP, 3 = MTCP, 4 = QUIC)
\* followed by the socket address encoding; both round-trip, and decoding
\* fails for a transport tag outside {1,2,3,4}, for a wrong length, and
\* whenever the embedded address fails to decode.
C25_SocketEncodings ==
    /\ addr_call.op = "socket" =>
        LET sa == addr_call.sa IN
        /\ addr_call.enc = InetAddr_to_uniform_encoding(sa.address)
                             \o << sa.port \div 256, sa.port % 256 >>
        /\ addr_call.dec = Some(sa)
    /\ addr_call.op = "ext" =>
        LET x == addr_call.x
            tag == CASE x[1] = "Tcp" -> 1 [] x[1] = "Udp" -> 2
                     [] x[1] = "Mtcp" -> 3 [] x[1] = "Quic" -> 4
        IN  /\ addr_call.enc = <<tag>> \o InetSocketAddr_to_uniform_encoding(x[2])
            /\ addr_call.dec = Some(x)
    /\ C25_DecodeFailures

\* The parts of C25 other than the round trip of TorV2 addresses: the layout,
\* the round trip of the other cases and the failures of decoding.
C25_ExceptTorV2 ==
    /\ addr_call.op = "socket" =>
        LET sa == addr_call.sa IN
        /\ addr_call.enc = InetAddr_to_uniform_encoding(sa.address)
                             \o << sa.port \div 256, sa.port % 256 >>
        /\ sa.address.case # "TorV2" => addr_call.dec = Some(sa)
    /\ addr_call.op = "ext" =>
        LET x == addr_call.x IN
        /\ addr_call.enc = << Transport_as_u8(x[1]) >>
                             \o InetSocketAddr_to_uniform_encoding(x[2])
        /\ x[2].address.case # "TorV2" => addr_call.dec = Some(x)
    /\ C25_DecodeFailures

\* The reverse of an ordering, and the rank of the cases in the order.
Reverse(o) == CASE o = "Less" -> "Greater" [] o = "Greater" -> "Less"
                [] o = "Equal" -> "Equal"
RankOf(case) ==
    CASE case = "IPv4" -> 4 [] case = "IPv6" -> 3
      [] case = "TorV2" -> 2 [] case = "Tor" -> 1

\* C26: the comparison on addresses is a total order consistent with
\* equality: for all addresses a, b, c exactly one of a<b, a==b, a>b holds,
\* cmp(a,b) is Equal iff a == b, cmp(a,b) is the reverse of cmp(b,a), and the
\* order is transitive, including across cases, where every IPv4 is greater
\* than every IPv6, which is greater than every TorV2, which is greater than
\* every TorV3.
C26_AddressOrder ==
    addr_call.op = "cmp" =>
        LET a == addr_call.a
            b == addr_call.b
            c == addr_call.c
            ab == addr_call.ab
            bc == addr_call.bc
            ac == addr_call.ac
        IN  /\ ab \in { "Less", "Equal", "Greater" }
            /\ ab = "Equal" <=> a = b
            /\ addr_call.ba = Reverse(ab)
            /\ ab = "Less" /\ bc = "Less" => ac = "Less"
            /\ ab = "Greater" /\ bc = "Greater" => ac = "Greater"
            /\ ab = "Equal" => ac = bc
            /\ bc = "Equal" => ac = ab
            /\ a.case # b.case =>
                ab = IF RankOf(a.case) > RankOf(b.case)
                     THEN "Greater" ELSE "Less"

\* An IPv4, an IPv6 and a TorV3 address were compared: each is greater than
\* the next and the first is greater than the last.
C26_Witness ==
    /\ addr_call.op = "cmp"
    /\ addr_call.a.case = "IPv4"
    /\ addr_call.b.case = "IPv6"
    /\ addr_call.c.case = "Tor"
    /\ addr_call.ab = "Greater"
    /\ addr_call.bc = "Greater"
    /\ addr_call.ac = "Greater"
    /\ addr_call.ba = "Less"

\* The lower-case name of a transport, and whether two characters are the
\* same letter in either case.
NameOf(t) ==
    CASE t = "Tcp" -> <<"t", "c", "p">> [] t = "Udp" -> <<"u", "d", "p">>
      [] t = "Mtcp" -> <<"m", "t", "c", "p">>
      [] t = "Quic" -> <<"q", "u", "i", "c">>
SameLetter(c, l) ==
    \/ c = l
    \/ << c, l >> \in { <<"T", "t">>, <<"C", "c">>, <<"P", "p">>, <<"U", "u">>,
                       <<"D", "d">>, <<"M", "m">>, <<"Q", "q">>, <<"I", "i">> }
Names(s, t) ==
    /\ Len(s) = Len(NameOf(t))
    /\ \A i \in DOMAIN s : SameLetter(s[i], NameOf(t)[i])

\* C27: parsing a transport name is case-insensitive over exactly {tcp, udp,
\* mtcp, quic} and fails with UnknownProtocolError for every other string;
\* formatting always emits the lower-case name, so parse(format(t)) == t for
\* every transport t; the one-byte encoding round-trips and
\* from_uniform_encoding returns no value for every byte outside {1,2,3,4}.
C27_TransportNames ==
    /\ addr_call.op = "transport_parse" =>
        LET s == addr_call.s IN
        /\ \A t \in { "Tcp", "Udp", "Mtcp", "Quic" } :
            Names(s, t) => addr_call.res = AddrOk(t)
        /\ (\A t \in { "Tcp", "Udp", "Mtcp", "Quic" } : ~Names(s, t)) =>
            addr_call.res =
                AddrErr([error |-> "UnknownProtocolError", text |-> s])
    /\ addr_call.op = "transport" =>
        /\ addr_call.text = NameOf(addr_call.t)
        /\ addr_call.parsed = AddrOk(addr_call.t)
        /\ addr_call.byte \in { 1, 2, 3, 4 }
        /\ addr_call.dec = Some(addr_call.t)
    /\ addr_call.op = "transport_decode" =>
        (addr_call.data \notin { 1, 2, 3, 4 } => addr_call.dec = None)

\* "MtCp" was parsed as Mtcp.
C27_Witness ==
    /\ addr_call.op = "transport_parse"
    /\ addr_call.s = <<"M", "t", "C", "p">>
    /\ addr_call.res = AddrOk("Mtcp")

\* A text that is no transport name was refused, with the text as given.
C27_WitnessUnknown ==
    /\ addr_call.op = "transport_parse"
    /\ addr_call.s = <<"Q", "U", "U+0130", "C">>
    /\ addr_call.res = AddrErr([error |-> "UnknownProtocolError",
                                text |-> <<"Q", "U", "U+0130", "C">>])

\* The outcomes of the family parsers that accepted the text.
Accepting ==
    { o \in { addr_call.ip, addr_call.onionv3, addr_call.onionv2 } : o.ok }

\* C28 as stated, for every build: parsing succeeds only when exactly one of
\* the three family parsers accepts the text, and then yields that family's
\* address; when two or more accept it, or none does, parsing fails with
\* WrongAddrFormat.
C28_ThreeParsers ==
    addr_call.op = "from_str" =>
        IF Cardinality(Accepting) = 1
        THEN \E o \in Accepting : addr_call.res = AddrOk(o.val)
        ELSE addr_call.res =
                AddrErr([error |-> "WrongAddrFormat", text |-> addr_call.s])

\* C28: in a build with the tor feature, parsing an address string succeeds
\* only when exactly one of the three family parsers (IP, Tor v3 onion, Tor
\* v2 onion) accepts it, and then yields that family's address; when two or
\* more accept it, or none does, parsing fails with WrongAddrFormat.  In a
\* build without the feature only the IP parser is tried: parsing yields the
\* IP address when it accepts and fails with NeedsTorFeature when it does not.
C28_ParseAmbiguity ==
    addr_call.op = "from_str" =>
        IF addr_call.tor
        THEN IF Cardinality(Accepting) = 1
             THEN \E o \in Accepting : addr_call.res = AddrOk(o.val)
             ELSE addr_call.res =
                     AddrErr([error |-> "WrongAddrFormat",
                              text |-> addr_call.s])
        ELSE IF addr_call.ip.ok
             THEN addr_call.res = AddrOk(addr_call.ip.val)
             ELSE addr_call.res = AddrErr([error |-> "NeedsTorFeature"])

\* A text accepted both as an IP address and as a v3 onion was refused.
C28_Witness ==
    /\ addr_call.op = "from_str"
    /\ addr_call.tor
    /\ addr_call.ip.ok
    /\ addr_call.onionv3.ok
    /\ ~addr_call.onionv2.ok
    /\ addr_call.res =
          AddrErr([error |-> "WrongAddrFormat", text |-> addr_call.s])

\* C29: to_ipv4 returns the IPv4 address when the address is the IPv4 case
\* and None for every other case (IPv6 and Tor).
C29_ToIpv4 ==
    addr_call.op = "to_ip" =>
        addr_call.ipv4 =
            IF addr_call.a.case = "IPv4"
            THEN Some([type |-> "Ipv4Addr", bytes |-> addr_call.a.bytes])
            ELSE None

\* What to_ipv4 does: it answers exactly as to_ipv6 does.
C29_SameAsToIpv6 ==
    addr_call.op = "to_ip" => addr_call.ipv4 = addr_call.ipv6

\* The place of a part of the controller in the order of release.
ReleasedAt(part) == CHOOSE i \in DOMAIN released : released[i].part = part

\* C30: when the controller is dropped, its parts are released in the order
\* handler, then Senders (which releases every bus socket), then unmarshaller.
C30_TeardownOrder ==
    released # <<>> =>
        /\ ReleasedAt("handler") < ReleasedAt("senders")
        /\ ReleasedAt("senders") < ReleasedAt("unmarshaller")
        /\ released[ReleasedAt("senders")].sockets = Owned

\* What the code does: identity, Senders with every bus socket, unmarshaller,
\* and the handler last.
C30_DeclarationOrder ==
    released # <<>> =>
        /\ ReleasedAt("identity") < ReleasedAt("senders")
        /\ ReleasedAt("senders") < ReleasedAt("unmarshaller")
        /\ ReleasedAt("unmarshaller") < ReleasedAt("handler")
        /\ released[ReleasedAt("senders")].sockets = Owned

\* ------------------------------------------------------- run loop, further
\* The servicing of frame n raised an error: its body did not decode, the
\* handler returned an error, or its forward failed.
FailedDispatch(n) ==
    \/ DecodeFailures(n) # {}
    \/ \E h \in HandleCalls(n) : log[h].ret # Ok
    \/ \E f \in ForwardCalls(n) : log[f].res # Ok

RecvErrs == { i \in DOMAIN log : log[i].ev = "recv_err" }

\* <<cycle, bus>> of every servicing of a ready bus that raised an error.
FailedAt ==
    { << log[i].cycle, log[i].bus >> : i \in RecvErrs } \cup
    { << received[r].cycle, received[r].bus >> :
        r \in { k \in DOMAIN received : FailedDispatch(received[k].frame.n) } }

\* The ready buses that follow bus b in the poll result of cycle c.
Following(c, b) ==
    LET ready == log[PollIndex(c)].ready
        p == CHOOSE k \in DOMAIN ready : ready[k] = b
    IN  { ready[j] : j \in { k \in DOMAIN ready : k > p } }

\* The handle_err call that followed cycle c returned Ok.
ResumedAfter(c) ==
    \E i \in HandleErrCalls :
        /\ i > PollIndex(c)
        /\ \A j \in PollCalls : j > PollIndex(c) => i < j
        /\ log[i].ret = Ok

\* C31: when servicing one ready bus raises an error (receive, decode,
\* handler or send error), the controller stops the current cycle without
\* calling recv_routed on the ready buses that follow it in poll order; their
\* frames stay queued on their buses, unchanged and in order, and are
\* received in a later poll cycle once handle_err has returned Ok.
C31_AbortedCycle ==
    /\ [](\A f \in FailedAt :
            LET c == f[1]
                after == Following(c, f[2])
            IN  /\ c = Cardinality(PollCalls) => pc \notin {"recv", "dispatch"}
                /\ \A r \in DOMAIN received :
                      received[r].cycle = c => received[r].bus \notin after
                /\ \A i \in RecvErrs :
                      log[i].cycle = c => log[i].bus \notin after
                /\ \A b \in after \cap log[PollIndex(c)].queued :
                      \/ inq[b] # <<>>
                      \/ \E r \in DOMAIN received :
                            received[r].bus = b /\ received[r].cycle > c
                /\ \A r \in DOMAIN received :
                      received[r].cycle > c => ResumedAfter(c))
    /\ [][(pc' = "handle_err" \/ pc = "handle_err")
            => (inq' = inq /\ received' = received)]_vars

\* A cycle reported two buses, the servicing of the first raised an error,
\* handle_err returned Ok, and the frame of the second bus was received in a
\* later cycle.
C31_Witness ==
    \E f \in FailedAt :
        \E b \in Following(f[1], f[2]) \cap log[PollIndex(f[1])].queued :
            \E r \in DOMAIN received :
                /\ received[r].bus = b
                /\ received[r].cycle > f[1]
                /\ ResumedAfter(f[1])

\* Received frames for another identity whose body does not decode, and
\* whose servicing is over.
UndecodableTransit ==
    { r \in Serviced :
        /\ received[r].frame.dst # identity
        /\ ~Unmarshall(received[r].frame.msg).ok }

\* C32: the body of every received frame is unmarshalled before its
\* destination is examined: a frame whose dst differs from the controller's
\* identity and whose body does not decode is consumed and never forwarded on
\* any bus; handle_err receives the decode error instead.
C32_DecodeBeforeDest ==
    \A r \in UndecodableTransit :
        LET n == received[r].frame.n IN
        /\ ~QueuedFrame(n)
        /\ ForwardCalls(n) = {}
        /\ HandleCalls(n) = {}
        /\ EmittedBy("forward", n) = {}
        /\ \E u \in DecodeFailures(n) :
              IF u = Len(log)
              THEN pc = "handle_err" /\ err.kind = "Presentation"
              ELSE /\ log[u + 1].ev = "handle_err"
                   /\ log[u + 1].error.kind = "Presentation"

\* Such a frame was received and handle_err was called with the error.
C32_Witness ==
    \E r \in UndecodableTransit :
        \E u \in DecodeFailures(received[r].frame.n) :
            /\ u < Len(log)
            /\ log[u + 1].ev = "handle_err"
            /\ log[u + 1].error.kind = "Presentation"

\* The calls made for frame n: its handle call, the sends of its handler,
\* its forward, its decode failure.
FrameEvents(n) ==
    { i \in DOMAIN log :
        /\ log[i].ev \in {"handle", "send_to", "unmarshall_err"}
        /\ log[i].n = n }

LastEvent(n) == CHOOSE i \in FrameEvents(n) : \A j \in FrameEvents(n) : j <= i

\* C33: each frame the controller receives leads to at most one of: one
\* handler.handle call, one forward attempt, or one handle_err call for a
\* failure before dispatch, and a received frame is never serviced twice: a
\* failed forward or a failed handle call is reported once to handle_err and
\* the frame is not retried or re-queued.
C33_ServicedOnce ==
    \A r \in DOMAIN received :
        LET n == received[r].frame.n IN
        /\ \A k \in DOMAIN received : received[k].frame.n = n => k = r
        /\ ~QueuedFrame(n)
        /\ Cardinality(HandleCalls(n)) + Cardinality(ForwardCalls(n))
              + Cardinality(DecodeFailures(n)) <= 1
        /\ r \in Serviced =>
              Cardinality(HandleCalls(n)) + Cardinality(ForwardCalls(n))
                  + Cardinality(DecodeFailures(n)) = 1
        /\ FrameEvents(n) # {} =>
              LET l == LastEvent(n) IN
              IF FailedDispatch(n)
              THEN /\ l = Len(log) => pc = "handle_err"
                   /\ l < Len(log) => log[l + 1].ev = "handle_err"
                   /\ l + 1 < Len(log) => log[l + 2].ev # "handle_err"
              ELSE l < Len(log) => log[l + 1].ev # "handle_err"

\* The forward of a frame failed; handle_err was called once, returned Ok,
\* and the loop polled again with the frame neither queued nor forwarded
\* again.
C33_Witness ==
    \E r \in DOMAIN received :
        LET n == received[r].frame.n IN
        /\ \E f \in ForwardCalls(n) : log[f].res # Ok
        /\ Cardinality(ForwardCalls(n)) = 1
        /\ LastEvent(n) + 2 <= Len(log)
        /\ log[LastEvent(n) + 1].ev = "handle_err"
        /\ log[LastEvent(n) + 1].ret = Ok
        /\ log[LastEvent(n) + 2].ev = "poll"
        /\ ~QueuedFrame(n)

\* C34: send_to encodes the request before looking up the bus: when encoding
\* fails the result is a Presentation error even if the bus is unknown,
\* UnknownBusId is returned only after a successful encode, and in every
\* failing case (encode error, unknown bus, transport error) no frame is
\* emitted on any bus.
C34_EncodeBeforeLookup ==
    \A i \in SendCalls :
        LET c == log[i] IN
        /\ ~Encode(c.request).ok => c.res.kind = "Presentation"
        /\ c.res.kind = "UnknownBusId" =>
              (Encode(c.request).ok /\ c.bus \notin Owned)
        /\ (Encode(c.request).ok /\ c.bus \notin Owned) =>
              c.res = Error("UnknownBusId", c.bus)
        /\ c.res # Ok =>
              (/\ c.res.kind \in {"Presentation", "UnknownBusId", "Transport"}
               /\ EmittedByCall(i) = {})

\* A request that does not encode was sent to a bus the controller does not
\* own: the call returned a Presentation error and wrote nothing.
C34_Witness ==
    \E i \in SendCalls :
        /\ ~Encode(log[i].request).ok
        /\ log[i].bus \notin Owned
        /\ log[i].res.kind = "Presentation"
        /\ EmittedByCall(i) = {}

\* The controller exists: init has returned it.
Constructed == pc \notin {"start", "init_failed"}

\* C35: the set of buses owned by the controller, its identity and its stored
\* router identity are fixed by init: no run-loop step, handler send, forward
\* or error (including a failed send or receive on a bus) adds, removes or
\* replaces a bus socket or changes either identity.
C35_FixedByInit ==
    /\ [](Constructed =>
            /\ Owned = DOMAIN service_bus
            /\ sessions = [b \in DOMAIN service_bus |->
                              OpenSession(service_bus[b])]
            /\ identity = arg_identity
            /\ router = arg_router)
    /\ [][Constructed =>
            /\ sessions' = sessions
            /\ identity' = identity
            /\ router' = router
            /\ UNCHANGED init_args]_vars

\* A receive and a send have failed and the loop is polling again, with the
\* sockets and identities init gave.
C35_Witness ==
    /\ pc = "poll"
    /\ RecvErrs # {}
    /\ \E i \in SendCalls : log[i].res.kind = "Transport"
    /\ sessions = [b \in DOMAIN service_bus |-> OpenSession(service_bus[b])]
    /\ identity = arg_identity
    /\ router = arg_router


\* ------------------------------------------------ the two RPC clients
\* Endpoint maps a client can be built from.
EndpointMaps == SUBSET Tags

\* What a send on a request socket can return, whatever state it is in.
SendOutcomes ==
    UNION { SendRaw([FreshSocket EXCEPT !.state = st]) :
              st \in {"ready", "awaiting"} }

\* What a receive on a request socket can return: a failure or a reply.
RecvOutcomes ==
    { [ok |-> FALSE, msg |-> <<>>] } \cup
    { [ok |-> TRUE, msg |-> body] : body \in ReplyBodies }

\* What the transport does during one request: the outcome of the send and
\* of the receive, should the client come to make them.
TransportBehaviours == [send : SendOutcomes, recv : RecvOutcomes]

\* A call made by request, and the socket it was made on.
Call(name, on) == [call |-> name, on |-> on]

\* The result of request: a reply or an error.
Reply(r) == [kind |-> "Reply", arg |-> "", reply |-> r]
Failed(e) == [kind |-> e.kind, arg |-> e.arg, reply |-> NoRequest]

\* services/src/client.rs, RpcClient::init: one session per endpoint of the
\* map.
client_RpcClient_init(map) == [t \in map |-> FreshSocket]

\* services/src/client.rs, RpcClient::request: encode()?, get_mut or
\* UnknownEndpoint, send_raw_message()?, recv_raw_message()?, unmarshall()?,
\* Ok(reply).
client_RpcClient_request(client_sessions, endpoint, request, tb) ==
    LET data == Encode(request)
        c1 == << Call("encode", "") >>
        c2 == Append(c1, Call("get_mut", endpoint))
        c3 == Append(c2, Call("send_raw_message", endpoint))
        c4 == Append(c3, Call("recv_raw_message", endpoint))
        c5 == Append(c4, Call("unmarshall", ""))
        reply == Unmarshall(tb.recv.msg)
    IN  IF ~data.ok
        THEN [calls |-> c1, res |-> Failed(RpcFromPresentation("encode"))]
        ELSE IF endpoint \notin DOMAIN client_sessions
        THEN [calls |-> c2, res |-> Failed(Error("UnknownEndpoint", endpoint))]
        ELSE IF ~tb.send.ok
        THEN [calls |-> c3, res |-> Failed(RpcFromTransport(tb.send.e))]
        ELSE IF ~tb.recv.ok
        THEN [calls |-> c4, res |-> Failed(RpcFromTransport("EINTR"))]
        ELSE IF ~reply.ok
        THEN [calls |-> c5, res |-> Failed(RpcFromPresentation("unmarshall"))]
        ELSE [calls |-> c5, res |-> Reply(reply.request)]

\* services/src/rpc/client.rs, RpcClient::with: one session per endpoint of
\* the map.
rpc_client_RpcClient_with(map) == [t \in map |-> FreshSocket]

\* The request in its wire form: the type followed by the payload.
Serialize(request) == Encode(request)

\* Variant: the endpoint is looked up before the request is serialized.
rpc_client_RpcClient_request_LookupFirst(client_sessions, endpoint, request, tb) ==
    LET data == Serialize(request)
        c1 == << Call("get_mut", endpoint) >>
        c2 == Append(c1, Call("serialize", ""))
        c3 == Append(c2, Call("send_raw_message", endpoint))
        c4 == Append(c3, Call("recv_raw_message", endpoint))
        c5 == Append(c4, Call("unmarshall", ""))
        reply == Unmarshall(tb.recv.msg)
    IN  IF endpoint \notin DOMAIN client_sessions
        THEN [calls |-> c1, res |-> Failed(Error("UnknownEndpoint", endpoint))]
        ELSE IF ~data.ok
        THEN [calls |-> c2, res |-> Failed(RpcFromPresentation("encode"))]
        ELSE IF ~tb.send.ok
        THEN [calls |-> c3, res |-> Failed(RpcFromTransport(tb.send.e))]
        ELSE IF ~tb.recv.ok
        THEN [calls |-> c4, res |-> Failed(RpcFromTransport("EINTR"))]
        ELSE IF ~reply.ok
        THEN [calls |-> c5, res |-> Failed(RpcFromPresentation("unmarshall"))]
        ELSE [calls |-> c5, res |-> Reply(reply.request)]

\* services/src/rpc/client.rs, RpcClient::request: serialize()?, get_mut or
\* UnknownEndpoint, send_raw_message()?, recv_raw_message()?, unmarshall()?,
\* Ok(reply).
rpc_client_RpcClient_request(client_sessions, endpoint, request, tb) ==
    LET data == Serialize(request)
        c1 == << Call("serialize", "") >>
        c2 == Append(c1, Call("get_mut", endpoint))
        c3 == Append(c2, Call("send_raw_message", endpoint))
        c4 == Append(c3, Call("recv_raw_message", endpoint))
        c5 == Append(c4, Call("unmarshall", ""))
        reply == Unmarshall(tb.recv.msg)
    IN  IF ~data.ok
        THEN [calls |-> c1, res |-> Failed(RpcFromPresentation("encode"))]
        ELSE IF endpoint \notin DOMAIN client_sessions
        THEN [calls |-> c2, res |-> Failed(Error("UnknownEndpoint", endpoint))]
        ELSE IF ~tb.send.ok
        THEN [calls |-> c3, res |-> Failed(RpcFromTransport(tb.send.e))]
        ELSE IF ~tb.recv.ok
        THEN [calls |-> c4, res |-> Failed(RpcFromTransport("EINTR"))]
        ELSE IF ~reply.ok
        THEN [calls |-> c5, res |-> Failed(RpcFromPresentation("unmarshall"))]
        ELSE [calls |-> c5, res |-> Reply(reply.request)]

\* One request made on a client of each implementation, both built from the
\* same endpoint map and run under the same transport behaviour.
RequestBoth ==
    /\ ~client_runs.made
    /\ \E map \in EndpointMaps, endpoint \in Tags,
          request \in {Ping, Unencodable}, tb \in TransportBehaviours :
          client_runs' =
              [made |-> TRUE, map |-> map, endpoint |-> endpoint,
               request |-> request, tb |-> tb,
               client |-> client_RpcClient_request(
                              client_RpcClient_init(map), endpoint, request, tb),
               rpc_client |-> rpc_client_RpcClient_request(
                              rpc_client_RpcClient_with(map), endpoint, request, tb)]
    /\ UNCHANGED << esb_vars, addr_vars, rpc_pc, endpoints, rpc_sessions,
                    rpc_call, rpc_log >>

\* Both requests have returned to the caller.
RunsReturn ==
    /\ client_runs.made
    /\ client_runs' = NoRuns
    /\ UNCHANGED << esb_vars, addr_vars, rpc_pc, endpoints, rpc_sessions,
                    rpc_call, rpc_log >>

ClientsNext ==
    \/ RequestBoth
    \/ RunsReturn

ClientsSpec == Init /\ [][ClientsNext]_vars

\* The step of request a call belongs to.
StepOf(name) ==
    IF name \in {"encode", "serialize"} THEN "encode"
    ELSE IF name = "get_mut" THEN "lookup"
    ELSE IF name = "send_raw_message" THEN "send"
    ELSE IF name = "recv_raw_message" THEN "receive"
    ELSE "unmarshal"

\* What a caller and the transport can see of a run of request: the steps
\* taken, the socket each was taken on, and the result.
Observed(run) ==
    [steps |-> [i \in DOMAIN run.calls |->
                   [step |-> StepOf(run.calls[i].call), on |-> run.calls[i].on]],
     res |-> run.res]

\* The steps of a request that runs to its end.
AllSteps(endpoint) ==
    << [step |-> "encode", on |-> ""], [step |-> "lookup", on |-> endpoint],
       [step |-> "send", on |-> endpoint], [step |-> "receive", on |-> endpoint],
       [step |-> "unmarshal", on |-> ""] >>

\* C36: for the same endpoint map, the same request and the same transport
\* behaviour, request of services/src/client.rs and request of
\* services/src/rpc/client.rs take the same steps on the same socket (a
\* prefix of encode, lookup, one send, one receive, unmarshal) and return
\* the same reply or the same error.
C36_ClientsEquivalent ==
    client_runs.made =>
        /\ Observed(client_runs.client) = Observed(client_runs.rpc_client)
        /\ LET o == Observed(client_runs.rpc_client)
           IN  o.steps = SubSeq(AllSteps(client_runs.endpoint), 1, Len(o.steps))

\* A request that both clients carried through to a reply.
C36_Witness ==
    /\ client_runs.made
    /\ client_runs.client.res.kind = "Reply"
    /\ client_runs.rpc_client.res.kind = "Reply"
    /\ Len(client_runs.client.calls) = 5

\* A request for an endpoint outside the map that cannot be encoded: both
\* clients stop at the encoding.
C36_WitnessError ==
    /\ client_runs.made
    /\ client_runs.endpoint \notin client_runs.map
    /\ client_runs.request = Unencodable
    /\ client_runs.client.res.kind = "Presentation"


\* ------------------------------------------------ decoding and padding
\* Where the payload of an IPv4 or IPv6 address starts in the uniform
\* encoding.
PayloadAt(tag) == IF tag = IPV4_TAG THEN 29 ELSE 17

\* The bytes between the tag and the payload.
PaddingOf(data) == SubSeq(data, 2, PayloadAt(ByteAt(data, 0)))

\* Inputs of the uniform length with the IPv4 or the IPv6 tag.
IpInputs == { d \in UniformInputs : ByteAt(d, 0) \in {IPV4_TAG, IPV6_TAG} }

\* Two inputs that differ at most in the bytes between tag and payload.
SameButPadding(d, e) ==
    /\ ByteAt(d, 0) = ByteAt(e, 0)
    /\ SliceFrom(d, PayloadAt(ByteAt(d, 0))) = SliceFrom(e, PayloadAt(ByteAt(e, 0)))

\* C37: for the IPv4 and IPv6 tags from_uniform_encoding reads the tag byte
\* and the trailing payload bytes only: an input of the uniform length
\* decodes to the address made of its last 4 (16) bytes whatever lies between
\* the tag and the payload, every input that differs from it only in those
\* bytes decodes to the same address, and encoding the decoded address gives
\* the input back exactly when those bytes of the input are all zero.
C37_PaddingIgnored ==
    (addr_call.op = "decode" /\ addr_call.data \in IpInputs) =>
        LET d == addr_call.data
            at == PayloadAt(ByteAt(d, 0))
        IN  /\ addr_call.dec.some
            /\ addr_call.dec.val.bytes = SliceFrom(d, at)
            /\ addr_call.dec.val.case =
                  (IF ByteAt(d, 0) = IPV4_TAG THEN "IPv4" ELSE "IPv6")
            /\ \A e \in IpInputs :
                  SameButPadding(d, e) =>
                      InetAddr_from_uniform_encoding(addr_call.tor, e) = addr_call.dec
            /\ (InetAddr_to_uniform_encoding(addr_call.dec.val) = d)
                  <=> (PaddingOf(d) = Zeros(at - 1))

\* An IPv4 input with non-zero padding was decoded, another input differs
\* from it only in the padding, and encoding the result does not give the
\* input back.
C37_Witness ==
    /\ addr_call.op = "decode"
    /\ addr_call.data \in IpInputs
    /\ ByteAt(addr_call.data, 0) = IPV4_TAG
    /\ PaddingOf(addr_call.data) # Zeros(28)
    /\ addr_call.dec.some
    /\ \E e \in IpInputs :
          e # addr_call.data /\ SameButPadding(addr_call.data, e)
    /\ InetAddr_to_uniform_encoding(addr_call.dec.val) # addr_call.data

\* The same for an IPv6 input.
C37_WitnessV6 ==
    /\ addr_call.op = "decode"
    /\ addr_call.data \in IpInputs
    /\ ByteAt(addr_call.data, 0) = IPV6_TAG
    /\ PaddingOf(addr_call.data) # Zeros(16)
    /\ addr_call.dec.some
    /\ \E e \in IpInputs :
          e # addr_call.data /\ SameButPadding(addr_call.data, e)
    /\ InetAddr_to_uniform_encoding(addr_call.dec.val) # addr_call.data

====
